---------------------------- MODULE Spec2Model ----------------------------
(***************************************************************************)
(* A model of the ECVRF library of kamui (mangekyou/src/kamui_vrf.rs) and  *)
(* of the callers that drive it.                                           *)
(*                                                                         *)
(* Byte arrays are sequences of digits 0..BYTE-1, little-endian where they *)
(* encode a number.  The sizes are scaled down so that TLC can enumerate   *)
(* them, keeping the relations the code relies on:                         *)
(*    u8 has 256 values            BYTE = 4                                *)
(*    scalars and points, 32 bytes PLEN = 3                                *)
(*    challenge, C_LEN = 16 bytes  C_LEN = 2  (C_LEN < PLEN)               *)
(*    SHA-512 digest, 64 bytes     HLEN = 6   (HLEN = 2 * PLEN)            *)
(*    group order l, about 2^252   ELL = 23   (prime; every challenge and  *)
(*                                 the scalar [1; 32] are below it, most   *)
(*                                 encodings are above it)                 *)
(* SHA-512 and the Ristretto group are libraries; they are modelled by a   *)
(* fixed mixing function and by the cyclic group of order ELL.             *)
(***************************************************************************)
EXTENDS Integers, Sequences, FiniteSets, TLC

BYTE == 4
PLEN == 3
C_LEN == 2
HLEN == 6
ELL == 23

Byte == 0 .. (BYTE - 1)

\* n as len little-endian digits (to_bytes of a number; copy_from_slice target)
Bytes(n, len) == [i \in 1 .. len |-> (n \div (BYTE ^ (i - 1))) % BYTE]

\* the number a little-endian byte string encodes
RECURSIVE LE(_)
LE(b) == IF Len(b) = 0 THEN 0 ELSE b[1] + BYTE * LE(SubSeq(b, 2, Len(b)))

\* [0u8; n]
Zeros(n) == [i \in 1 .. n |-> 0]

\* the byte strings of length len, as a set
ByteStrings(len) == {Bytes(n, len) : n \in 0 .. (BYTE ^ len - 1)}

(***************************************************************************)
(* curve25519-dalek scalars: integers modulo the group order.              *)
(***************************************************************************)
NoScalar == -1

\* Scalar::from_bytes_mod_order, Scalar::from_bytes_mod_order_wide
from_bytes_mod_order(b) == LE(b) % ELL

\* Scalar::from_canonical_bytes, behind TryFrom<&PodScalar> for Scalar
from_canonical_bytes(b) == IF LE(b) < ELL THEN LE(b) ELSE NoScalar

\* PodScalar::from(&Scalar): the canonical 32 bytes
PodScalar(x) == Bytes(x, PLEN)

(***************************************************************************)
(* Ristretto points: the group element p * B is the number p in 0..ELL-1.  *)
(* Each element has one canonical encoding; the identity encodes as zeros, *)
(* every valid encoding has a clear top bit, most byte strings decode to   *)
(* nothing.                                                                *)
(***************************************************************************)
NoPoint == -1
NoBytes == << >>

\* CompressedRistretto of a group element (PodRistrettoPoint::from)
compress(p) == Bytes((p * 5) % 28, PLEN)

\* the group element each 32-byte string decodes to, if any
DecompressTable ==
    [n \in 0 .. (BYTE ^ PLEN - 1) |->
        IF \E p \in 0 .. (ELL - 1) : compress(p) = Bytes(n, PLEN)
        THEN CHOOSE p \in 0 .. (ELL - 1) : compress(p) = Bytes(n, PLEN)
        ELSE NoPoint]

\* CompressedRistretto::decompress, behind TryFrom<&PodRistrettoPoint>
decompress(b) == DecompressTable[LE(b)]

\* The Ristretto basepoint encoded as bytes
BASEPOINT_BYTES == compress(1)

\* solana_zk_token_sdk multiply_ristretto: None for a non-canonical scalar
\* or a byte string that is no point
multiply_ristretto(scalar, point) ==
    LET s == from_canonical_bytes(scalar)
        p == decompress(point)
    IN  IF s = NoScalar \/ p = NoPoint THEN NoBytes
        ELSE compress((s * p) % ELL)

RECURSIVE SumProducts(_, _, _)
SumProducts(scalars, points, i) ==
    IF i > Len(scalars) THEN 0
    ELSE from_canonical_bytes(scalars[i]) * decompress(points[i])
         + SumProducts(scalars, points, i + 1)

\* solana_zk_token_sdk multiscalar_multiply_ristretto: the scalars are
\* converted first, then the points; None when any conversion fails
multiscalar_multiply_ristretto(scalars, points) ==
    IF \E i \in 1 .. Len(scalars) : from_canonical_bytes(scalars[i]) = NoScalar
    THEN NoBytes
    ELSE IF \E i \in 1 .. Len(points) : decompress(points[i]) = NoPoint
    THEN NoBytes
    ELSE compress(SumProducts(scalars, points, 1) % ELL)

(***************************************************************************)
(* SHA-512 (type H): a hasher state that absorbs the bytes it is updated   *)
(* with, by a fixed mixing function; the digest is HLEN bytes.             *)
(***************************************************************************)
RECURSIVE Absorb(_, _, _)
Absorb(acc, msg, i) ==
    IF i > Len(msg) \/ acc < 0 THEN acc
    ELSE Absorb((acc * 31 + msg[i] + 1) % (BYTE ^ HLEN - 3), msg, i + 1)

\* H::default()
H_default == 5

\* hasher.update(data)
update(hasher, data) == Absorb(hasher, data, 1)

\* hasher.finalize().digest
finalize(hasher) == Bytes(hasher, HLEN)

\* H::digest(data)
H_digest(data) == finalize(update(H_default, data))

SUITE_STRING == <<115, 111, 108, 95, 118, 114, 102>>

DST == <<69, 67, 86, 82, 70, 95, 114, 105, 115, 116, 114, 101, 116, 116,
         111, 50, 53, 53, 95, 88, 77, 68, 58, 83, 72, 65, 45, 53, 49, 50,
         95, 82, 50, 53, 53, 77, 65, 80, 95, 82, 79, 95, 115, 111, 108, 95,
         118, 114, 102>>

\* the hasher after update(DST), after update(SUITE_STRING)
H_DST == update(H_default, DST)
H_SUITE == update(H_default, SUITE_STRING)


(***************************************************************************)
(* ECVRFPublicKey                                                          *)
(***************************************************************************)
\* the retry loop of ecvrf_encode_to_curve_solana: the first candidate that
\* multiply_ristretto accepts, stepping byte 0; the basepoint after 256 tries
RECURSIVE TryPoint(_, _)
TryPoint(point_bytes, attempts) ==
    IF attempts >= BYTE THEN BASEPOINT_BYTES
    ELSE IF multiply_ristretto([i \in 1 .. PLEN |-> 1], point_bytes) # NoBytes
    THEN point_bytes
    ELSE TryPoint([point_bytes EXCEPT ![1] = (@ + 1) % BYTE], attempts + 1)

\* the two rounds of hashing of ecvrf_encode_to_curve_solana and the
\* 64 bytes made of the first halves of their digests
uniform_bytes_of(pk, alpha_string) ==
    LET h1 == finalize(update(update(update(H_DST, <<1>>), pk), alpha_string))
        h2 == finalize(update(update(H_DST, <<2>>), h1))
    IN  SubSeq(h1, 1, PLEN) \o SubSeq(h2, 1, PLEN)

\* from the 64 bytes to the point: the first 32 bytes, top bit cleared, then
\* the retry loop
point_of_uniform(uniform_bytes) ==
    LET first == SubSeq(uniform_bytes, 1, PLEN)
        \* point_bytes[31] &= 0b0111_1111
        point_bytes == [first EXCEPT ![PLEN] = @ % (BYTE \div 2)]
    IN  TryPoint(point_bytes, 0)

ecvrf_encode_to_curve_solana(pk, alpha_string) ==
    point_of_uniform(uniform_bytes_of(pk, alpha_string))

(***************************************************************************)
(* kamui-example-program: the verifier that runs on chain                  *)
(***************************************************************************)
\* b_0[i] ^ b_1[i] on the bits of a byte
RECURSIVE XorBits(_, _, _)
XorBits(a, b, n) ==
    IF n = 1 THEN 0
    ELSE ((a + b) % 2) + 2 * XorBits(a \div 2, b \div 2, n \div 2)

Xor(a, b) == [i \in 1 .. Len(a) |-> XorBits(a[i], b[i], BYTE)]

\* expand_message_xmd as the program spells it out: b_0, b_1, b_2 and the
\* first halves of b_1 and b_2
expand_message_xmd(msg) ==
    LET dst_prime == DST \o <<Len(DST)>>
        b_0 == finalize(update(update(update(update(H_default,
                   Zeros(2 * HLEN)), msg), <<0, HLEN>>), dst_prime))
        b_1 == finalize(update(update(update(H_default, b_0), <<1>>), dst_prime))
        b_2 == finalize(update(update(update(H_default, Xor(b_0, b_1)), <<2>>),
                               dst_prime))
    IN  SubSeq(b_1, 1, PLEN) \o SubSeq(b_2, 1, PLEN)

\* a validity test that lets every key pass
valid_always(pk) == TRUE

\* a validity test that decodes the point
valid_decoded(pk) == decompress(pk) # NoPoint /\ ~(\A i \in 1 .. Len(pk) : pk[i] = 0)

\* ECVRFPublicKey::valid: a check for the zero point only
valid(pk) == ~(\A i \in 1 .. Len(pk) : pk[i] = 0)

\* Result<_, std::io::Error> of the from_bytes constructors
IoOk(v) == [tag |-> "Ok", value |-> v]
IoErr == [tag |-> "Err", value |-> NoBytes]

ECVRFPublicKey_from_bytes(bytes) ==
    IF Len(bytes) # PLEN THEN IoErr ELSE IoOk(SubSeq(bytes, 1, PLEN))

(***************************************************************************)
(* ECVRFPrivateKey                                                         *)
(***************************************************************************)
ecvrf_nonce_generation(sk, h_string) ==
    LET hashed_sk_string == H_digest(Bytes(from_bytes_mod_order(sk), PLEN))
        truncated_hashed_sk_string == SubSeq(hashed_sk_string, PLEN + 1, HLEN)
        k_string == finalize(update(update(H_default, truncated_hashed_sk_string),
                                    h_string))
    IN  PodScalar(from_bytes_mod_order(k_string))

ECVRFPrivateKey_from_bytes(bytes) ==
    IF Len(bytes) # PLEN THEN IoErr ELSE IoOk(SubSeq(bytes, 1, PLEN))

(***************************************************************************)
(* Challenge, ECVRFKeyPair                                                 *)
(***************************************************************************)
\* Generate challenge from five points: the first C_LEN bytes of the digest
ecvrf_challenge_generation(points) ==
    LET digest == finalize(update(update(update(H_SUITE, <<2>>),
                          points[1] \o points[2] \o points[3] \o points[4]
                          \o points[5]), <<0>>))
    IN  SubSeq(digest, 1, C_LEN)

\* the challenge as a scalar's 32 bytes: scalar_bytes[..C_LEN] = c, rest zero
ChallengeScalarBytes(c) == c \o Zeros(PLEN - Len(c))

NoKey == [pk |-> NoBytes, sk |-> NoBytes]

\* From<ECVRFPrivateKey> for ECVRFKeyPair: pk = B * (sk mod l)
KeyPairFrom(sk) == [pk |-> compress((1 * from_bytes_mod_order(sk)) % ELL), sk |-> sk]

\* ECVRFKeyPair::generate from the 64 bytes the rng filled
generate(scalar_bytes) == KeyPairFrom(PodScalar(from_bytes_mod_order(scalar_bytes)))

\* ECVRFKeyPair::from_bytes: the first 32 bytes as pk, the next 32 as sk
ECVRFKeyPair_from_bytes(bytes) ==
    IF Len(bytes) # PLEN * 2 THEN [tag |-> "Err", value |-> NoKey]
    ELSE [tag |-> "Ok",
          value |-> [pk |-> SubSeq(bytes, 1, PLEN),
                     sk |-> SubSeq(bytes, PLEN + 1, PLEN * 2)]]

NoProof == [gamma |-> NoBytes, c |-> NoBytes, s |-> NoBytes]

\* the unwrap() calls of prove: one of them meets None
prove_panics(kp, alpha_string) ==
    LET h_point == ecvrf_encode_to_curve_solana(kp.pk, alpha_string)
        k == ecvrf_nonce_generation(kp.sk, alpha_string)
    IN  \/ multiply_ristretto(kp.sk, h_point) = NoBytes
        \/ multiply_ristretto(k, BASEPOINT_BYTES) = NoBytes
        \/ multiply_ristretto(k, h_point) = NoBytes

prove(kp, alpha_string) ==
    LET h_point == ecvrf_encode_to_curve_solana(kp.pk, alpha_string)
        gamma == multiply_ristretto(kp.sk, h_point)
        k == ecvrf_nonce_generation(kp.sk, alpha_string)
        c == ecvrf_challenge_generation(<<kp.pk, h_point, gamma,
                 multiply_ristretto(k, BASEPOINT_BYTES),
                 multiply_ristretto(k, h_point)>>)
        k_scalar == from_bytes_mod_order(k)
        sk_scalar == from_bytes_mod_order(kp.sk)
        c_scalar == from_bytes_mod_order(ChallengeScalarBytes(c))
        s == (k_scalar + c_scalar * sk_scalar) % ELL
    IN  [gamma |-> gamma, c |-> c, s |-> PodScalar(s)]

(***************************************************************************)
(* ECVRFProof                                                              *)
(***************************************************************************)
\* L, the order of the curve, as negate_scalar spells it out
order == <<3, 1, 1>>

\* the loop of negate_scalar: L - x byte by byte with a borrow
RECURSIVE NegateFrom(_, _, _)
NegateFrom(scalar, i, carry) ==
    IF i > PLEN THEN << >>
    ELSE LET diff == order[i] - scalar[i] - carry
         IN  IF diff < 0
             THEN <<diff + BYTE>> \o NegateFrom(scalar, i + 1, 1)
             ELSE <<diff>> \o NegateFrom(scalar, i + 1, 0)

negate_scalar(scalar) == NegateFrom(scalar, 1, 0)

\* the branches the loop of negate_scalar takes: for each byte, whether
\* diff < 0 held
RECURSIVE NegateBranchesFrom(_, _, _)
NegateBranchesFrom(scalar, i, carry) ==
    IF i > PLEN THEN << >>
    ELSE LET diff == order[i] - scalar[i] - carry
         IN  IF diff < 0
             THEN <<TRUE>> \o NegateBranchesFrom(scalar, i + 1, 1)
             ELSE <<FALSE>> \o NegateBranchesFrom(scalar, i + 1, 0)

negate_scalar_branches(scalar) == NegateBranchesFrom(scalar, 1, 0)

\* the return statement verify reaches
verify_return(proof, alpha_string, public_key) ==
    IF ~valid(public_key) THEN "pk_valid"
    ELSE
    LET h_point == ecvrf_encode_to_curve_solana(public_key, alpha_string)
        neg_challenge == negate_scalar(ChallengeScalarBytes(proof.c))
        u_point == multiscalar_multiply_ristretto(<<proof.s, neg_challenge>>,
                       <<BASEPOINT_BYTES, public_key>>)
        v_point == multiscalar_multiply_ristretto(<<proof.s, neg_challenge>>,
                       <<h_point, proof.gamma>>)
        c_prime == ecvrf_challenge_generation(<<public_key, h_point,
                       proof.gamma, u_point, v_point>>)
    IN  IF u_point = NoBytes THEN "u_point"
        ELSE IF v_point = NoBytes THEN "v_point"
        ELSE IF c_prime # proof.c THEN "c_prime"
        ELSE "ok"

\* verify with the two ok_or(..) of the multiplications told apart
verify_error_split(at) ==
    CASE at = "pk_valid" -> "InvalidInput"
      [] at = "u_point" -> "InvalidInput"
      [] at = "v_point" -> "GeneralOpaqueError"
      [] at = "c_prime" -> "GeneralOpaqueError"
      [] OTHER -> "Ok"

\* the Result<(), MangekyouError> each return statement of verify gives
verify_error(at) ==
    CASE at = "pk_valid" -> "InvalidInput"
      [] at = "u_point" -> "InvalidInput"
      [] at = "v_point" -> "InvalidInput"
      [] at = "c_prime" -> "GeneralOpaqueError"
      [] OTHER -> "Ok"

\* ECVRFProof::verify
verify(proof, alpha_string, public_key) ==
    verify_error(verify_return(proof, alpha_string, public_key))

\* a to_hash that also absorbs the challenge
to_hash_with_c(proof) ==
    finalize(update(update(update(update(H_SUITE, <<3>>), proof.gamma), proof.c),
                    <<0>>))

\* Compute the output of the VRF with this proof
to_hash(proof) ==
    finalize(update(update(update(H_SUITE, <<3>>), proof.gamma), <<0>>))

\* a verify_output that compares the output without verifying the proof
verify_output_unverified(proof, alpha_string, public_key, out) ==
    IF to_hash(proof) # out THEN "GeneralOpaqueError" ELSE "Ok"

\* VRFProof::verify_output
verify_output(proof, alpha_string, public_key, out) ==
    LET r == verify(proof, alpha_string, public_key)
    IN  IF r # "Ok" THEN r
        ELSE IF to_hash(proof) # out THEN "GeneralOpaqueError"
        ELSE "Ok"

\* an output whose hash leaves out the domain separators
output_plain_hash(kp, alpha_string) ==
    LET proof == prove(kp, alpha_string)
    IN  <<finalize(update(H_SUITE, proof.gamma)), proof>>

\* VRFKeyPair::output: both hash and proof
output(kp, alpha_string) ==
    LET proof == prove(kp, alpha_string)
    IN  <<to_hash(proof), proof>>

\* the layout the example program's test reads the bytes in: gamma, s, c
to_bytes_gamma_s_c(proof) == proof.gamma \o proof.s \o proof.c

\* an encoding with the scalar in front
to_bytes_s_first(proof) == proof.s \o proof.c \o proof.gamma

\* ECVRFProof::to_bytes: gamma, the borsh bytes of c, s
to_bytes(proof) == proof.gamma \o proof.c \o proof.s

\* Challenge::try_from_slice
Challenge_try_from_slice(bytes) ==
    IF Len(bytes) < C_LEN THEN IoErr ELSE IoOk(SubSeq(bytes, 1, C_LEN))

\* a from_bytes that reads gamma, s, c
ECVRFProof_from_bytes_s_c(bytes) ==
    IF Len(bytes) <= PLEN * 2 THEN [tag |-> "Err", proof |-> NoProof]
    ELSE IF Len(bytes) < PLEN + C_LEN + PLEN
    THEN [tag |-> "panic", proof |-> NoProof]
    ELSE [tag |-> "Ok",
          proof |-> [gamma |-> SubSeq(bytes, 1, PLEN),
                     c |-> SubSeq(bytes, PLEN + PLEN + 1, PLEN + PLEN + C_LEN),
                     s |-> SubSeq(bytes, PLEN + 1, PLEN + PLEN)]]

\* ECVRFProof::from_bytes: a slice that ends past the input aborts
ECVRFProof_from_bytes(bytes) ==
    IF Len(bytes) <= PLEN * 2 THEN [tag |-> "Err", proof |-> NoProof]
    ELSE IF Len(bytes) < PLEN + C_LEN + PLEN
    THEN [tag |-> "panic", proof |-> NoProof]
    ELSE [tag |-> "Ok",
          proof |-> [gamma |-> SubSeq(bytes, 1, PLEN),
                     c |-> Challenge_try_from_slice(
                               SubSeq(bytes, PLEN + 1, PLEN + C_LEN)).value,
                     s |-> SubSeq(bytes, PLEN + C_LEN + 1, PLEN + C_LEN + PLEN)]]


(***************************************************************************)
(* kamui-example-program: ECVRFProof and process_instruction               *)
(***************************************************************************)
\* ECVRFProof::ecvrf_encode_to_curve_solana of the program: from alpha alone
onchain_encode_to_curve_solana(alpha_string) ==
    point_of_uniform(expand_message_xmd(alpha_string))

\* ECVRFProof::from_bytes of the program
onchain_from_bytes(bytes) ==
    IF Len(bytes) # PLEN + C_LEN + PLEN THEN [tag |-> "Err", proof |-> NoProof]
    ELSE [tag |-> "Ok",
          proof |-> [gamma |-> SubSeq(bytes, 1, PLEN),
                     c |-> SubSeq(bytes, PLEN + 1, PLEN + C_LEN),
                     s |-> SubSeq(bytes, PLEN + C_LEN + 1, PLEN + C_LEN + PLEN)]]

\* the return statement the program's verify reaches
onchain_verify_return(proof, alpha_string, public_key) ==
    IF \A i \in 1 .. Len(public_key) : public_key[i] = 0 THEN "pk_valid"
    ELSE
    LET h_point == onchain_encode_to_curve_solana(alpha_string)
        neg_challenge == negate_scalar(ChallengeScalarBytes(proof.c))
        u_point == multiscalar_multiply_ristretto(<<proof.s, neg_challenge>>,
                       <<BASEPOINT_BYTES, public_key>>)
        v_point == multiscalar_multiply_ristretto(<<proof.s, neg_challenge>>,
                       <<h_point, proof.gamma>>)
        c_prime == ecvrf_challenge_generation(<<public_key, h_point,
                       proof.gamma, u_point, v_point>>)
    IN  IF u_point = NoBytes THEN "u_point"
        ELSE IF v_point = NoBytes THEN "v_point"
        ELSE IF c_prime # proof.c THEN "c_prime"
        ELSE "ok"

\* the return statement process_instruction reaches
process_instruction_return(proof_bytes, public_key_bytes, alpha_string) ==
    IF onchain_from_bytes(proof_bytes).tag = "Err" THEN "from_bytes"
    ELSE IF Len(public_key_bytes) # PLEN THEN "pk_len"
    ELSE onchain_verify_return(onchain_from_bytes(proof_bytes).proof,
                               alpha_string, public_key_bytes)

\* process_instruction: the ProgramResult
process_instruction(proof_bytes, public_key_bytes, alpha_string) ==
    LET at == process_instruction_return(proof_bytes, public_key_bytes,
                                         alpha_string)
    IN  IF at = "ok" THEN "Ok"
        ELSE IF at \in {"from_bytes", "pk_len"} THEN "InvalidInstructionData"
        ELSE "InvalidArgument"

(***************************************************************************)
(* The coordinator: Processor::process_fulfill_randomness                  *)
(***************************************************************************)
\* let mut randomness = [0u8; 64]; randomness[i] = (i as u8).wrapping_add(1)
\* for the first 32 bytes
randomness_of(proof_bytes, public_key_bytes) ==
    [i \in 1 .. HLEN |-> IF i <= PLEN THEN i % BYTE ELSE 0]

(***************************************************************************)
(* The inputs that are tried.                                              *)
(***************************************************************************)
MaxSk == 3
MaxSeed == 2
MaxAlpha == 2
MaxPk == 3
MaxExtra == 2

\* secret-key bytes handed to ECVRFPrivateKey::from_bytes: small scalars and
\* the encodings from the group order upwards
SecretInputs ==
    {Bytes(n, PLEN) : n \in 0 .. MaxSk} \cup {Bytes(ELL + n, PLEN) : n \in 0 .. MaxSk}

\* what the rng fills into the 64 bytes of generate
RngInputs == {Bytes(BYTE ^ HLEN - 1 - n, HLEN) : n \in 0 .. MaxSeed}

\* alpha strings: the empty one, then the numbers 1.. in bytes
AlphaOf(n) == IF n = 0 THEN << >> ELSE IF n < BYTE THEN <<n>> ELSE <<n % BYTE, n \div BYTE>>
AlphaInputs == {AlphaOf(n) : n \in 0 .. MaxAlpha}

\* public-key bytes a verifier may be handed in place of the prover's
PkInputs == {Bytes(n, PLEN) : n \in 0 .. MaxPk}

\* bytes cut to n bytes, or filled up to n bytes
Resize(bytes, n) ==
    IF n <= Len(bytes) THEN SubSeq(bytes, 1, n)
    ELSE bytes \o [i \in 1 .. (n - Len(bytes)) |-> 1]

PROOF_LEN == PLEN + C_LEN + PLEN

\* bytes handed to ECVRFKeyPair::from_bytes: a public key and a secret key
\* of the above, and the 32 zero bytes of MockProver::new
KeyPairInputs ==
    {pk \o PodScalar(n) : pk \in PkInputs, n \in 0 .. MaxSk} \cup {Zeros(PLEN)}

(***************************************************************************)
(* A session: a prover derives a key pair, proves an input, and hands      *)
(* public key, input, proof bytes and output to a verifier; on the way at  *)
(* most the public key and one other item are replaced.                    *)
(***************************************************************************)
VARIABLES pc, kp, alpha, proof, out, own,
          wire, pkwire, valpha, vout, tampered,
          decoded, vpk, result, vhash, recoded, vrf_result,
          cpc, loc,
          arguments, cli_result, cli_pc,
          coordinator, game, vrf_program_id, subscription, tokens, requests,
          vrf_results, game_state, oracle_config, offchain, last, script,
          retry

vars == <<pc, kp, alpha, proof, out, own, wire, pkwire, valpha, vout, tampered,
          decoded, vpk, result, vhash, recoded, vrf_result, cpc, loc,
          arguments, cli_result, cli_pc,
          coordinator, game, vrf_program_id, subscription, tokens, requests,
          vrf_results, game_state, oracle_config, offchain, last, script,
          retry>>

\* the threads that call prove on the one key pair
Callers == {1, 2}

\* the locals of one invocation of prove, before any is assigned
NoLocals == [alpha_string |-> NoBytes, h_point |-> NoBytes, gamma |-> NoBytes,
             k |-> NoBytes, c |-> NoBytes, s |-> NoBytes]

NoResult == [res |-> "none", at |-> "none"]
NoDecoded == [tag |-> "none", proof |-> NoProof]
NoVrfResult == [randomness |-> NoBytes, proof |-> NoBytes]

\* the hex strings of a command line before any is typed, and the result of
\* execute before it has run
NoArguments == [secret_key |-> << >>, public_key |-> << >>, input |-> << >>,
                proof |-> << >>, output |-> << >>]
NoCliResult == [res |-> "none", text |-> "none", proof |-> << >>, output |-> << >>]

(***************************************************************************)
(* kamui-program, kamui-example-program, example-vrf-game: the coordinator *)
(* and the games that consume its randomness (SpecFlow).  A Pubkey is a    *)
(* sequence of strings: the name of a key pair, or a program derived       *)
(* address spelled as its program id and seeds.  Of the privileges of an   *)
(* account in an instruction only is_signer is kept.                       *)
(***************************************************************************)
system_program_id == <<"system_program">>
game_program_id == <<"game_program">>
subscription_owner == <<"subscription_owner">>
subscription_account == <<"subscription_account">>
game_owner == <<"game_owner">>
payer == <<"payer">>
oracle_config_account == <<"oracle_config">>

\* the programs deployed as coordinator and as game, and the addresses the
\* coordinator is deployed at: the two the games spell out, and new_unique()
Coordinators == {"kamui-program", "kamui-example-program"}
Games == {"kamui-program", "kamui-example-program", "example-vrf-game", "consumer"}
CoordinatorIds == {<<"29wLw7e3">>, <<"Bfwfooyk">>, <<"new_unique">>}

\* the deployments that are tried: the one of test_full_vrf_flow, the
\* coordinator at the address its game spells out, the coordinator with a
\* consumer that accepts every callback, and the example programs
Deployments ==
    {<<"kamui-program", "kamui-program", <<"new_unique">> >>,
     <<"kamui-program", "kamui-program", <<"29wLw7e3">> >>,
     <<"kamui-program", "consumer", <<"new_unique">> >>,
     <<"kamui-example-program", "kamui-example-program", <<"new_unique">> >>,
     <<"kamui-example-program", "example-vrf-game", <<"Bfwfooyk">> >>}

\* Pubkey::find_program_address(seeds, program_id)
find_program_address(seeds, program_id) == <<"pda">> \o program_id \o seeds

\* u64::to_le_bytes as a seed
to_le_bytes(n) == <<ToString(n)>>

\* u64::checked_add
U64_MAX == 7
checked_add(a, b) == IF a + b > U64_MAX THEN -1 ELSE a + b

\* AccountMeta / AccountInfo of an instruction
Meta(key, is_signer) == [key |-> key, is_signer |-> is_signer]

\* accounts without data
NoSubscription == [exists |-> FALSE, owner |-> << >>, balance |-> 0,
                   min_balance |-> 0, confirmations |-> 0, nonce |-> 0]
NoRequest == [exists |-> FALSE, subscription |-> << >>, seed |-> << >>,
              requester |-> << >>, callback_data |-> "", status |-> "none",
              num_words |-> 0, callback_gas_limit |-> 0, nonce |-> 0]
NoVrfResultAccount == [exists |-> FALSE, randomness |-> << >>, proof |-> << >>]
NoGameState == [exists |-> FALSE, owner |-> << >>, subscription |-> << >>,
                current_number |-> 0, is_pending |-> FALSE]
NoOracleConfig == [exists |-> FALSE, oracle_key |-> << >>, vrf_key |-> << >>,
                   is_active |-> FALSE]

ProgramOk(w) == [res |-> "Ok", w |-> w]
\* an instruction that fails leaves every account as it was
ProgramErr(w, e) == [res |-> e, w |-> w]

\* the constants for request validation
MINIMUM_REQUEST_CONFIRMATIONS == 1
MINIMUM_CALLBACK_GAS_LIMIT == 10000
MAXIMUM_CALLBACK_GAS_LIMIT == 1000000
MAXIMUM_RANDOM_WORDS == 100

\* the parameters of a request are within these constants
within_validation_bounds(num_words, minimum_confirmations, callback_gas_limit) ==
    /\ num_words <= MAXIMUM_RANDOM_WORDS
    /\ minimum_confirmations >= MINIMUM_REQUEST_CONFIRMATIONS
    /\ callback_gas_limit >= MINIMUM_CALLBACK_GAS_LIMIT
    /\ callback_gas_limit <= MAXIMUM_CALLBACK_GAS_LIMIT

\* the request accounts and VRF result accounts of the one subscription
request_key(n, program_id) ==
    find_program_address(<<"request">> \o subscription_account \o to_le_bytes(n),
                         program_id)
vrf_result_key(of, program_id) == find_program_address(<<"vrf_result">> \o of, program_id)
game_state_pda == find_program_address(<<"game_state">> \o game_owner, game_program_id)

MaxNonce == 1
MaxRequests == 2
MaxMinBalance == 1
MaxAmount == 1

\* the request accounts and result accounts that instructions are handed
RequestKeysUpTo(n, program_id) == {request_key(i, program_id) : i \in 0 .. n}
RequestKeys(program_id) == RequestKeysUpTo(MaxNonce, program_id)
VrfResultKeysUpTo(n, program_id) ==
    {vrf_result_key(k, program_id) : k \in RequestKeysUpTo(n, program_id)}
        \cup {vrf_result_key(game_owner, program_id)}

\* the seed of a request, the key pair of the oracle, and the proofs it
\* sends: its proof of the seed, and bytes that are no proof
request_seed == Zeros(PLEN)
vrf_keypair == generate(Bytes(BYTE ^ HLEN - 1, HLEN))
FulfillProofs == {to_bytes(prove(vrf_keypair, request_seed)), Zeros(PROOF_LEN)}

\* the proof decodes and verifies for the seed under the public key
proof_verifies(proof_bytes, public_key_bytes, seed) ==
    /\ ECVRFProof_from_bytes(proof_bytes).tag = "Ok"
    /\ ECVRFPublicKey_from_bytes(public_key_bytes).tag = "Ok"
    /\ verify(ECVRFProof_from_bytes(proof_bytes).proof, seed,
              ECVRFPublicKey_from_bytes(public_key_bytes).value) = "Ok"

\* what the oracle computes off chain before it sends FulfillRandomness:
\* its public key, the proofs, and which of them verify
Offchain ==
    [public_key |-> vrf_keypair.pk, proofs |-> FulfillProofs,
     verifying |-> {p \in FulfillProofs :
                       proof_verifies(p, vrf_keypair.pk, request_seed)}]

\* what the client saw of the last instruction, and what held when it was
\* sent: the first account signed, the oracle was registered and active, the
\* proof verified, the request was pending, the subscription held its
\* minimum balance, how the address handed over was derived, whether any
\* account changed, whether the parameters of the request were within the
\* bounds of state.rs, and whether the request account of a CancelRequest
\* held a request
NoLast == [ix |-> "none", res |-> "none", signed |-> FALSE, registered |-> FALSE,
           verifies |-> FALSE, pending |-> FALSE, funded |-> FALSE,
           address |-> "", changed |-> FALSE, in_bounds |-> FALSE,
           held |-> FALSE]

\* the deployment, and the accounts before any instruction: the request
\* accounts are those of the nonces up to n
FlowInitUpTo(c, g, id, n) ==
    /\ coordinator = c
    /\ game = g
    /\ vrf_program_id = id
    /\ subscription = NoSubscription
    /\ tokens = [funder |-> MaxAmount + 1, subscription |-> 0]
    /\ requests = [k \in RequestKeysUpTo(n, id) |-> NoRequest]
    /\ vrf_results = [k \in VrfResultKeysUpTo(n, id) |-> NoVrfResultAccount]
    /\ game_state = NoGameState
    /\ oracle_config = NoOracleConfig
    /\ offchain = Offchain
    /\ last = NoLast
    /\ script = 0

FlowInit(c, g, id) == FlowInitUpTo(c, g, id, MaxNonce)

\* the retry loop of ecvrf_encode_to_curve_solana before it is entered
NoRetry == [pc |-> "idle", uniform_bytes |-> << >>, point_bytes |-> << >>,
            attempts |-> 0, tested |-> << >>, returned |-> << >>]

\* the library, the session and the command line before anything is done
SessionInit ==
    /\ pc = "idle"
    /\ kp = NoKey
    /\ alpha = << >>
    /\ proof = NoProof
    /\ out = NoBytes
    /\ own = NoResult
    /\ wire = NoBytes
    /\ pkwire = NoBytes
    /\ valpha = << >>
    /\ vout = NoBytes
    /\ tampered = {}
    /\ decoded = NoDecoded
    /\ vpk = NoBytes
    /\ result = NoResult
    /\ vhash = NoBytes
    /\ recoded = NoDecoded
    /\ vrf_result = NoVrfResult
    /\ cpc = [i \in Callers |-> "idle"]
    /\ loc = [i \in Callers |-> NoLocals]
    /\ arguments = NoArguments
    /\ cli_result = NoCliResult
    /\ cli_pc = "start"
    /\ retry = NoRetry

\* the state after construction: the deployment of test_full_vrf_flow
Init == SessionInit /\ FlowInit("kamui-program", "kamui-program", <<"new_unique">>)

callers == <<cpc, loc>>
prover == <<kp, alpha, proof, out, own>>
channel == <<wire, pkwire, valpha, vout, tampered>>
verifier == <<decoded, vpk, result, vhash, recoded, vrf_result>>
cli == <<arguments, cli_result, cli_pc>>
flow == <<coordinator, game, vrf_program_id, subscription, tokens, requests,
          vrf_results, game_state, oracle_config, offchain, last, script>>
outside == <<cli, flow, retry>>

\* ECVRFKeyPair::generate(rng)
Generate(scalar_bytes) ==
    /\ pc = "idle"
    /\ kp' = generate(scalar_bytes)
    /\ pc' = "keyed"
    /\ UNCHANGED <<alpha, proof, out, own, channel, verifier>>
    /\ UNCHANGED callers
    /\ UNCHANGED outside

\* ECVRFPrivateKey::from_bytes, then ECVRFKeyPair::from
KeyPairFromSecret(bytes) ==
    /\ pc = "idle"
    /\ ECVRFPrivateKey_from_bytes(bytes).tag = "Ok"
    /\ kp' = KeyPairFrom(ECVRFPrivateKey_from_bytes(bytes).value)
    /\ pc' = "keyed"
    /\ UNCHANGED <<alpha, proof, out, own, channel, verifier>>
    /\ UNCHANGED callers
    /\ UNCHANGED outside

\* kp.prove(alpha)
Prove(a) ==
    /\ pc = "keyed"
    /\ alpha' = a
    /\ IF prove_panics(kp, a)
       THEN pc' = "aborted" /\ proof' = NoProof
       ELSE pc' = "proved" /\ proof' = prove(kp, a)
    /\ UNCHANGED <<kp, out, own, channel, verifier>>
    /\ UNCHANGED callers
    /\ UNCHANGED outside

\* kp.output(alpha)
Output(a) ==
    /\ pc = "keyed"
    /\ alpha' = a
    /\ IF prove_panics(kp, a)
       THEN pc' = "aborted" /\ proof' = NoProof /\ out' = NoBytes
       ELSE pc' = "proved" /\ out' = output(kp, a)[1] /\ proof' = output(kp, a)[2]
    /\ UNCHANGED <<kp, own, channel, verifier>>
    /\ UNCHANGED callers
    /\ UNCHANGED outside

\* proof.verify(alpha, &kp.pk) on the prover's own proof
VerifyOwn ==
    /\ pc = "proved"
    /\ own = NoResult
    /\ own' = [res |-> verify(proof, alpha, kp.pk),
               at |-> verify_return(proof, alpha, kp.pk)]
    /\ UNCHANGED <<pc, kp, alpha, proof, out, channel, verifier>>
    /\ UNCHANGED callers
    /\ UNCHANGED outside

\* the prover hands out proof.to_bytes(), the key's bytes (as_ref), alpha
\* and the output: that of output(), or else proof.to_hash()
Publish ==
    /\ pc = "proved"
    /\ wire' = to_bytes(proof)
    /\ pkwire' = kp.pk
    /\ valpha' = alpha
    /\ out' = IF out = NoBytes THEN to_hash(proof) ELSE out
    /\ vout' = out'
    /\ pc' = "published"
    /\ UNCHANGED <<kp, alpha, proof, own, tampered, verifier>>
    /\ UNCHANGED callers
    /\ UNCHANGED outside

CanTamper(what) ==
    /\ pc = "published"
    /\ what \notin tampered
    /\ tampered \subseteq {"pk"}
    /\ tampered' = tampered \cup {what}
    /\ UNCHANGED <<pc, prover, verifier>>
    /\ UNCHANGED callers
    /\ UNCHANGED outside

TamperPk(bytes) ==
    /\ CanTamper("pk")
    /\ bytes # pkwire
    /\ pkwire' = bytes
    /\ UNCHANGED <<wire, valpha, vout>>

TamperAlpha(a) ==
    /\ CanTamper("alpha")
    /\ a # valpha
    /\ valpha' = a
    /\ UNCHANGED <<wire, pkwire, vout>>

TamperGamma(bytes) ==
    /\ CanTamper("gamma")
    /\ bytes # SubSeq(wire, 1, PLEN)
    /\ wire' = bytes \o SubSeq(wire, PLEN + 1, PROOF_LEN)
    /\ UNCHANGED <<pkwire, valpha, vout>>

TamperC(bytes) ==
    /\ CanTamper("c")
    /\ bytes # SubSeq(wire, PLEN + 1, PLEN + C_LEN)
    /\ wire' = SubSeq(wire, 1, PLEN) \o bytes \o SubSeq(wire, PLEN + C_LEN + 1, PROOF_LEN)
    /\ UNCHANGED <<pkwire, valpha, vout>>

TamperS(bytes) ==
    /\ CanTamper("s")
    /\ bytes # SubSeq(wire, PLEN + C_LEN + 1, PROOF_LEN)
    /\ wire' = SubSeq(wire, 1, PLEN + C_LEN) \o bytes
    /\ UNCHANGED <<pkwire, valpha, vout>>

TamperOutput(i, b) ==
    /\ CanTamper("output")
    /\ b # vout[i]
    /\ vout' = [vout EXCEPT ![i] = b]
    /\ UNCHANGED <<wire, pkwire, valpha>>

TamperLength(n) ==
    /\ CanTamper("length")
    /\ n # Len(wire)
    /\ wire' = Resize(wire, n)
    /\ UNCHANGED <<pkwire, valpha, vout>>

\* the proof is handed over in the order gamma, s, c
TamperLayout ==
    /\ CanTamper("layout")
    /\ wire' = to_bytes_gamma_s_c(proof)
    /\ UNCHANGED <<pkwire, valpha, vout>>

\* the instruction is sent to the program on chain
ProcessInstruction ==
    /\ pc = "published"
    /\ result' = [res |-> process_instruction(wire, pkwire, valpha),
                  at |-> process_instruction_return(wire, pkwire, valpha)]
    /\ pc' = "onchain"
    /\ UNCHANGED <<prover, channel, decoded, vpk, vhash, recoded>>
    /\ UNCHANGED callers
    /\ UNCHANGED outside
    /\ UNCHANGED vrf_result

\* the oracle sends FulfillRandomness { proof, public_key } to the
\* coordinator, which stores the VRF result and emits RandomnessFulfilled
FulfillRandomness(is_signer) ==
    /\ pc = "published"
    /\ IF ~is_signer
       THEN pc' = "rejected" /\ vrf_result' = vrf_result
       ELSE /\ pc' = "fulfilled"
            /\ vrf_result' = [randomness |-> randomness_of(wire, pkwire),
                              proof |-> wire]
    /\ UNCHANGED <<prover, channel, decoded, vpk, result, vhash, recoded>>
    /\ UNCHANGED callers
    /\ UNCHANGED outside

\* the verifier's ECVRFPublicKey::from_bytes and ECVRFProof::from_bytes
Receive ==
    /\ pc = "published"
    /\ vpk' = ECVRFPublicKey_from_bytes(pkwire).value
    /\ decoded' = ECVRFProof_from_bytes(wire)
    /\ pc' = IF decoded'.tag = "panic" THEN "crashed"
             ELSE IF decoded'.tag = "Err" THEN "refused"
             ELSE "received"
    /\ UNCHANGED <<prover, channel, result, vhash, recoded>>
    /\ UNCHANGED callers
    /\ UNCHANGED outside
    /\ UNCHANGED vrf_result

\* proof.verify(alpha, &public_key)
Verify ==
    /\ pc = "received"
    /\ result' = [res |-> verify(decoded.proof, valpha, vpk),
                  at |-> verify_return(decoded.proof, valpha, vpk)]
    /\ pc' = "verified"
    /\ UNCHANGED <<prover, channel, decoded, vpk, vhash, recoded>>
    /\ UNCHANGED callers
    /\ UNCHANGED outside
    /\ UNCHANGED vrf_result

\* the return statement verify_output reaches
verify_output_return(p, a, k, o) ==
    IF verify(p, a, k) # "Ok" THEN verify_return(p, a, k)
    ELSE IF verify_output(p, a, k, o) # "Ok" THEN "output" ELSE "ok"

\* proof.verify_output(alpha, &public_key, &output)
VerifyOutput ==
    /\ pc = "received"
    /\ result' = [res |-> verify_output(decoded.proof, valpha, vpk, vout),
                  at |-> verify_output_return(decoded.proof, valpha, vpk, vout)]
    /\ pc' = "verified_output"
    /\ UNCHANGED <<prover, channel, decoded, vpk, vhash, recoded>>
    /\ UNCHANGED callers
    /\ UNCHANGED outside
    /\ UNCHANGED vrf_result

\* proof.to_hash() on the verifier's side
HashReceived ==
    /\ pc = "received"
    /\ vhash' = to_hash(decoded.proof)
    /\ pc' = "hashed"
    /\ UNCHANGED <<prover, channel, decoded, vpk, result, recoded>>
    /\ UNCHANGED callers
    /\ UNCHANGED outside
    /\ UNCHANGED vrf_result

\* ECVRFProof::from_bytes(&proof.to_bytes()) of the proof in hand
Recode ==
    /\ pc = "received"
    /\ recoded' = ECVRFProof_from_bytes(to_bytes(decoded.proof))
    /\ pc' = "recoded"
    /\ UNCHANGED <<prover, channel, decoded, vpk, result, vhash>>
    /\ UNCHANGED callers
    /\ UNCHANGED outside
    /\ UNCHANGED vrf_result

Next ==
    \/ \E r \in RngInputs : Generate(r)
    \/ \E b \in SecretInputs : KeyPairFromSecret(b)
    \/ \E a \in AlphaInputs : Prove(a)
    \/ \E a \in AlphaInputs : Output(a)
    \/ VerifyOwn
    \/ Publish
    \/ \E b \in PkInputs : TamperPk(b)
    \/ \E a \in AlphaInputs : TamperAlpha(a)
    \/ \E b \in ByteStrings(PLEN) : TamperGamma(b)
    \/ \E b \in ByteStrings(C_LEN) : TamperC(b)
    \/ \E b \in ByteStrings(PLEN) : TamperS(b)
    \/ \E i \in 1 .. HLEN, b \in Byte : TamperOutput(i, b)
    \/ \E n \in 0 .. (PROOF_LEN + MaxExtra) : TamperLength(n)
    \/ TamperLayout
    \/ ProcessInstruction
    \/ \E is_signer \in BOOLEAN : FulfillRandomness(is_signer)
    \/ Receive
    \/ Verify
    \/ VerifyOutput
    \/ HashReceived
    \/ Recode

Spec == Init /\ [][Next]_vars

(***************************************************************************)
(* prove, statement by statement: two threads call it on the same key      *)
(* pair, each with its own locals, their statements interleaved at will.   *)
(***************************************************************************)
session == <<alpha, proof, out, own, channel, verifier>>

\* let h_point = self.pk.ecvrf_encode_to_curve_solana(alpha_string)
h_point_of(key, a) == ecvrf_encode_to_curve_solana(key.pk, a)

\* let gamma = multiply_ristretto(&PodScalar(self.sk.0.0.0), &h_point)
gamma_of(key, h) == multiply_ristretto(key.sk, h)

\* a nonce that depends on what another caller has computed so far
nonce_of_shared(key, a) ==
    LET own_k == ecvrf_nonce_generation(key.sk, a)
    IN  IF \E j \in Callers : loc[j].k # NoBytes
        THEN PodScalar((from_bytes_mod_order(own_k) + 1) % ELL)
        ELSE own_k

\* let k = self.sk.ecvrf_nonce_generation(alpha_string)
nonce_of(key, a) == ecvrf_nonce_generation(key.sk, a)

\* let c = ecvrf_challenge_generation([Y, H, Gamma, k*B, k*H])
challenge_of(key, h, g, k) ==
    ecvrf_challenge_generation(<<key.pk, h, g,
        multiply_ristretto(k, BASEPOINT_BYTES), multiply_ristretto(k, h)>>)

\* let s = k_scalar + c_scalar * sk_scalar
response_of(key, k, c) ==
    PodScalar((from_bytes_mod_order(k)
               + from_bytes_mod_order(ChallengeScalarBytes(c))
                 * from_bytes_mod_order(key.sk)) % ELL)

\* ECVRFProof { gamma, c, s }
returned_proof(l) == [gamma |-> l.gamma, c |-> l.c, s |-> l.s]

\* one statement of caller i: its locals become l, its position p
Statement(i, from, l, p) ==
    /\ cpc[i] = from
    /\ loc' = [loc EXCEPT ![i] = l]
    /\ cpc' = [cpc EXCEPT ![i] = p]
    /\ UNCHANGED <<pc, kp, session>>
    /\ UNCHANGED outside

\* ECVRFKeyPair::from_bytes(bytes)
KeyPairFromBytes(bytes) ==
    /\ pc = "idle"
    /\ IF ECVRFKeyPair_from_bytes(bytes).tag = "Ok"
       THEN pc' = "keyed" /\ kp' = ECVRFKeyPair_from_bytes(bytes).value
       ELSE pc' = "refused" /\ kp' = kp
    /\ UNCHANGED <<session, callers>>
    /\ UNCHANGED outside

Call(i, a) ==
    /\ pc = "keyed"
    /\ Statement(i, "idle", [NoLocals EXCEPT !.alpha_string = a], "h_point")

LetHPoint(i) ==
    Statement(i, "h_point",
              [loc[i] EXCEPT !.h_point = h_point_of(kp, loc[i].alpha_string)],
              "gamma")

\* unwrap() of None ends the thread
LetGamma(i) ==
    LET g == gamma_of(kp, loc[i].h_point)
    IN  Statement(i, "gamma", [loc[i] EXCEPT !.gamma = g],
                  IF g = NoBytes THEN "panicked" ELSE "k")

LetK(i) ==
    Statement(i, "k", [loc[i] EXCEPT !.k = nonce_of(kp, loc[i].alpha_string)], "c")

LetC(i) ==
    LET l == loc[i]
    IN  Statement(i, "c",
                  [l EXCEPT !.c = challenge_of(kp, l.h_point, l.gamma, l.k)],
                  IF \/ multiply_ristretto(l.k, BASEPOINT_BYTES) = NoBytes
                     \/ multiply_ristretto(l.k, l.h_point) = NoBytes
                  THEN "panicked" ELSE "s")

LetS(i) ==
    Statement(i, "s", [loc[i] EXCEPT !.s = response_of(kp, loc[i].k, loc[i].c)],
              "returned")

NextProve ==
    \/ \E r \in RngInputs : Generate(r)
    \/ \E b \in SecretInputs : KeyPairFromSecret(b)
    \/ \E b \in KeyPairInputs : KeyPairFromBytes(b)
    \/ \E i \in Callers, a \in AlphaInputs : Call(i, a)
    \/ \E i \in Callers : LetHPoint(i)
    \/ \E i \in Callers : LetGamma(i)
    \/ \E i \in Callers : LetK(i)
    \/ \E i \in Callers : LetC(i)
    \/ \E i \in Callers : LetS(i)

SpecProve == Init /\ [][NextProve]_vars


(***************************************************************************)
(* mangekyou-cli: execute on hex-encoded arguments (SpecCli).  A byte is   *)
(* written as two digits; "z" stands for a character that is no digit.     *)
(***************************************************************************)
HexDigits == <<"0", "1">>
HexValue(ch) == IF ch = "1" THEN 1 ELSE 0

\* hex::encode
hex_encode(bytes) ==
    [i \in 1 .. 2 * Len(bytes) |->
        IF i % 2 = 1 THEN HexDigits[(bytes[(i + 1) \div 2] \div 2) + 1]
        ELSE HexDigits[(bytes[i \div 2] % 2) + 1]]

\* hex::decode: an odd length or a character that is no digit is an error
hex_decode(s) ==
    IF Len(s) % 2 # 0 \/ \E i \in 1 .. Len(s) : s[i] \notin {"0", "1"}
    THEN IoErr
    ELSE IoOk([i \in 1 .. Len(s) \div 2 |->
                  2 * HexValue(s[2 * i - 1]) + HexValue(s[2 * i])])

CliOk(text, proof_string, proof_hash) ==
    [res |-> "Ok", text |-> text, proof |-> proof_string, output |-> proof_hash]
CliErr(text) == [res |-> "Err", text |-> text, proof |-> << >>, output |-> << >>]
\* an unwrap() of Err or None, or a slice out of range: the process aborts
CliAbort == [res |-> "abort", text |-> "panicked", proof |-> << >>, output |-> << >>]

\* execute(Command::Prove(arguments))
execute_Prove(args) ==
    IF hex_decode(args.secret_key).tag = "Err" THEN CliErr("Invalid private key.")
    ELSE IF hex_decode(args.input).tag = "Err" THEN CliErr("Invalid input string.")
    ELSE IF ECVRFPrivateKey_from_bytes(hex_decode(args.secret_key).value).tag # "Ok"
    THEN CliAbort
    ELSE LET kp_ == KeyPairFrom(hex_decode(args.secret_key).value)
             alpha_string == hex_decode(args.input).value
         IN  IF prove_panics(kp_, alpha_string) THEN CliAbort
             ELSE CliOk("Proof: Output:",
                        hex_encode(to_bytes(prove(kp_, alpha_string))),
                        hex_encode(to_hash(prove(kp_, alpha_string))))

\* execute(Command::Verify(arguments))
execute_Verify(args) ==
    LET public_key_bytes == hex_decode(args.public_key)
        alpha_string == hex_decode(args.input)
        proof_bytes == hex_decode(args.proof)
        output_bytes == hex_decode(args.output)
    IN  IF public_key_bytes.tag = "Err" THEN CliErr("Invalid public key.")
        ELSE IF alpha_string.tag = "Err" THEN CliErr("Invalid input string.")
        ELSE IF proof_bytes.tag = "Err" THEN CliErr("Invalid proof string.")
        ELSE IF output_bytes.tag = "Err" THEN CliErr("Invalid output string.")
        ELSE IF Len(output_bytes.value) # HLEN THEN CliErr("Output must be 64 bytes.")
        ELSE IF ECVRFPublicKey_from_bytes(public_key_bytes.value).tag # "Ok"
        THEN CliAbort
        ELSE IF ECVRFProof_from_bytes(proof_bytes.value).tag # "Ok" THEN CliAbort
        ELSE IF verify_output(ECVRFProof_from_bytes(proof_bytes.value).proof,
                              alpha_string.value,
                              ECVRFPublicKey_from_bytes(public_key_bytes.value).value,
                              output_bytes.value) = "Ok"
        THEN CliOk("Proof verified correctly!", << >>, << >>)
        ELSE CliErr("Proof is not correct.")

\* the ways a hex string is mistyped: a character that is no digit, a digit
\* dropped, a byte dropped, a byte added, a digit changed
Mistypes == {"char", "odd", "short", "long", "digit"}
Mistyped(s, how) ==
    IF how = "long" THEN s \o <<"0", "0">>
    ELSE IF Len(s) = 0 THEN s
    ELSE IF how = "char" THEN [s EXCEPT ![1] = "z"]
    ELSE IF how = "odd" THEN SubSeq(s, 1, Len(s) - 1)
    ELSE IF how = "short" THEN SubSeq(s, 1, Len(s) - 2)
    ELSE [s EXCEPT ![Len(s)] = IF @ = "0" THEN "1" ELSE "0"]

\* input strings typed on the command line
InputStrings == {hex_encode(a) : a \in AlphaInputs} \cup {<<"z", "z">>, <<"0">>}

library == <<pc, prover, channel, verifier, callers>>

\* ecvrf-cli keygen
CliKeygen(scalar_bytes) ==
    /\ cli_pc = "start"
    /\ arguments' = [NoArguments EXCEPT
                        !.secret_key = hex_encode(generate(scalar_bytes).sk),
                        !.public_key = hex_encode(generate(scalar_bytes).pk)]
    /\ cli_result' = CliOk("Secret key: Public key:", << >>, << >>)
    /\ cli_pc' = "keyed"
    /\ UNCHANGED library
    /\ UNCHANGED <<flow, retry>>

\* the user brings a secret key of their own, and its public key
CliOwnKey(bytes) ==
    /\ cli_pc = "start"
    /\ arguments' = [NoArguments EXCEPT
                        !.secret_key = hex_encode(bytes),
                        !.public_key = hex_encode(KeyPairFrom(bytes).pk)]
    /\ cli_result' = cli_result
    /\ cli_pc' = "keyed"
    /\ UNCHANGED library
    /\ UNCHANGED <<flow, retry>>

\* the secret key is mistyped before prove is called
CliMistypeSecretKey(how) ==
    /\ cli_pc = "keyed"
    /\ arguments' = [arguments EXCEPT !.secret_key = Mistyped(@, how)]
    /\ cli_pc' = "keyed_mistyped"
    /\ UNCHANGED <<cli_result, library, flow, retry>>

\* ecvrf-cli prove --input .. --secret-key ..
CliProve(input) ==
    /\ cli_pc \in {"keyed", "keyed_mistyped"}
    /\ cli_result' = execute_Prove([arguments EXCEPT !.input = input])
    /\ arguments' = [arguments EXCEPT !.input = input,
                                      !.proof = cli_result'.proof,
                                      !.output = cli_result'.output]
    /\ cli_pc' = IF cli_result'.res = "Ok" THEN "proved" ELSE "prove_failed"
    /\ UNCHANGED library
    /\ UNCHANGED <<flow, retry>>

\* one argument of verify is mistyped
CliMistype(field, how) ==
    /\ cli_pc = "proved"
    /\ arguments' = [arguments EXCEPT ![field] = Mistyped(@, how)]
    /\ cli_pc' = "proved_mistyped"
    /\ UNCHANGED <<cli_result, library, flow, retry>>

\* ecvrf-cli verify --output .. --proof .. --input .. --public-key ..
CliVerify ==
    /\ cli_pc \in {"proved", "proved_mistyped"}
    /\ cli_result' = execute_Verify(arguments)
    /\ cli_pc' = "verified"
    /\ UNCHANGED <<arguments, library, flow, retry>>

NextCli ==
    \/ \E r \in RngInputs : CliKeygen(r)
    \/ \E b \in SecretInputs : CliOwnKey(b)
    \/ \E how \in Mistypes : CliMistypeSecretKey(how)
    \/ \E input \in InputStrings : CliProve(input)
    \/ \E field \in {"public_key", "input", "proof", "output"}, how \in Mistypes :
          CliMistype(field, how)
    \/ CliVerify

SpecCli == Init /\ [][NextCli]_vars

(***************************************************************************)
(* The accounts of the coordinator and the games                           *)
(***************************************************************************)
\* the accounts as a whole: what an instruction reads and writes
World == [subscription |-> subscription, tokens |-> tokens, requests |-> requests,
          vrf_results |-> vrf_results, game_state |-> game_state,
          oracle_config |-> oracle_config]

\* AccountInfo::owner: the program that created the account
owner_of(w, key) ==
    IF key = subscription_account /\ w.subscription.exists THEN vrf_program_id
    ELSE IF key \in DOMAIN w.requests /\ w.requests[key].exists THEN vrf_program_id
    ELSE IF key \in DOMAIN w.vrf_results /\ w.vrf_results[key].exists
    THEN vrf_program_id
    ELSE IF key = game_state_pda /\ w.game_state.exists THEN game_program_id
    ELSE IF key = oracle_config_account /\ w.oracle_config.exists THEN vrf_program_id
    ELSE system_program_id

\* the subscription an instruction reads from the account it is handed
HasSubscription(w, key) == key = subscription_account /\ w.subscription.exists
HasRequest(w, key) ==
    IF key \in DOMAIN w.requests THEN w.requests[key].exists ELSE FALSE
HasVrfResult(w, key) ==
    IF key \in DOMAIN w.vrf_results THEN w.vrf_results[key].exists ELSE FALSE

(***************************************************************************)
(* The coordinator                                                         *)
(***************************************************************************)
process_create_subscription(w, accounts, min_balance, confirmations) ==
    IF Len(accounts) < 3 THEN ProgramErr(w, "NotEnoughAccountKeys")
    ELSE IF ~accounts[1].is_signer THEN ProgramErr(w, "MissingRequiredSignature")
    ELSE IF ~accounts[2].is_signer THEN ProgramErr(w, "MissingRequiredSignature")
    ELSE IF owner_of(w, accounts[2].key) # system_program_id
    THEN ProgramErr(w, "AccountAlreadyInUse")
    ELSE ProgramOk([w EXCEPT !.subscription =
                       [exists |-> TRUE, owner |-> accounts[1].key, balance |-> 0,
                        min_balance |-> min_balance,
                        confirmations |-> confirmations, nonce |-> 0]])

process_fund_subscription(w, accounts, amount) ==
    IF Len(accounts) < 5 THEN ProgramErr(w, "NotEnoughAccountKeys")
    ELSE IF ~accounts[1].is_signer THEN ProgramErr(w, "MissingRequiredSignature")
    ELSE IF ~HasSubscription(w, accounts[2].key)
    THEN ProgramErr(w, "ProgramFailedToComplete")
    ELSE IF w.tokens.funder < amount THEN ProgramErr(w, "InsufficientFunds")
    ELSE IF checked_add(w.subscription.balance, amount) = -1
    THEN ProgramErr(w, "InvalidInstructionData")
    ELSE ProgramOk([w EXCEPT
            !.tokens = [funder |-> @.funder - amount,
                        subscription |-> @.subscription + amount],
            !.subscription.balance = checked_add(@, amount)])

\* the RandomnessRequest that process_request_randomness writes
NewRequest(accounts, seed, callback_data, num_words, callback_gas_limit, nonce) ==
    [exists |-> TRUE, subscription |-> accounts[3].key, seed |-> seed,
     requester |-> accounts[1].key, callback_data |-> callback_data,
     status |-> "Pending", num_words |-> num_words,
     callback_gas_limit |-> callback_gas_limit, nonce |-> nonce]

\* a RequestRandomness that does not look at the balance
request_randomness_unfunded(w, accounts, seed, callback_data, num_words, callback_gas_limit) ==
    LET request_account == accounts[2]
        expected_request == find_program_address(
            <<"request">> \o accounts[3].key \o to_le_bytes(w.subscription.nonce),
            vrf_program_id)
    IN  IF expected_request # request_account.key THEN ProgramErr(w, "InvalidSeeds")
        ELSE IF request_account.key \notin DOMAIN w.requests
        THEN ProgramErr(w, "ProgramFailedToComplete")
        ELSE ProgramOk([w EXCEPT
                !.requests[request_account.key] =
                    NewRequest(accounts, seed, callback_data, num_words,
                               callback_gas_limit, w.subscription.nonce),
                !.subscription.nonce = @ + 1])

\* kamui-program: the address is derived from the nonce, which is then
\* incremented
request_randomness_kamui_program(w, accounts, seed, callback_data, num_words, callback_gas_limit) ==
    LET request_account == accounts[2]
        expected_request == find_program_address(
            <<"request">> \o accounts[3].key \o to_le_bytes(w.subscription.nonce),
            vrf_program_id)
    IN  IF expected_request # request_account.key THEN ProgramErr(w, "InvalidSeeds")
        ELSE IF w.subscription.balance < w.subscription.min_balance
        THEN ProgramErr(w, "InsufficientBalance")
        ELSE IF request_account.key \notin DOMAIN w.requests
        THEN ProgramErr(w, "ProgramFailedToComplete")
        ELSE IF checked_add(w.subscription.nonce, 1) = -1
        THEN ProgramErr(w, "InvalidInstructionData")
        ELSE ProgramOk([w EXCEPT
                !.requests[request_account.key] =
                    IF @.exists THEN @
                    ELSE NewRequest(accounts, seed, callback_data, num_words,
                                    callback_gas_limit, w.subscription.nonce),
                !.subscription.nonce = checked_add(@, 1)])

\* a RequestRandomness that does not write the incremented nonce back to the
\* subscription
request_randomness_keeps_nonce(w, accounts, seed, callback_data, num_words, callback_gas_limit) ==
    LET request_account == accounts[2]
        nonce == checked_add(w.subscription.nonce, 1)
        request_pda == find_program_address(
            <<"request">> \o accounts[3].key \o to_le_bytes(nonce), vrf_program_id)
    IN  IF w.subscription.balance < w.subscription.min_balance
        THEN ProgramErr(w, "InsufficientBalance")
        ELSE IF nonce = -1 THEN ProgramErr(w, "InvalidInstructionData")
        ELSE IF request_pda # request_account.key THEN ProgramErr(w, "InvalidSeeds")
        ELSE IF request_account.key \notin DOMAIN w.requests
        THEN ProgramErr(w, "ProgramFailedToComplete")
        ELSE IF owner_of(w, request_account.key) # system_program_id
        THEN ProgramErr(w, "AccountAlreadyInUse")
        ELSE ProgramOk([w EXCEPT
                !.requests[request_account.key] =
                    NewRequest(accounts, seed, callback_data, num_words,
                               callback_gas_limit, nonce)])

\* kamui-example-program: the nonce is incremented, and the address is
\* derived from the incremented nonce
request_randomness_kamui_example_program(w, accounts, seed, callback_data, num_words, callback_gas_limit) ==
    LET request_account == accounts[2]
        nonce == checked_add(w.subscription.nonce, 1)
        request_pda == find_program_address(
            <<"request">> \o accounts[3].key \o to_le_bytes(nonce), vrf_program_id)
    IN  IF w.subscription.balance < w.subscription.min_balance
        THEN ProgramErr(w, "InsufficientBalance")
        ELSE IF nonce = -1 THEN ProgramErr(w, "InvalidInstructionData")
        ELSE IF request_pda # request_account.key THEN ProgramErr(w, "InvalidSeeds")
        ELSE IF request_account.key \notin DOMAIN w.requests
        THEN ProgramErr(w, "ProgramFailedToComplete")
        ELSE IF owner_of(w, request_account.key) # system_program_id
        THEN ProgramErr(w, "AccountAlreadyInUse")
        ELSE ProgramOk([w EXCEPT
                !.requests[request_account.key] =
                    NewRequest(accounts, seed, callback_data, num_words,
                               callback_gas_limit, nonce),
                !.subscription.nonce = nonce])

\* Processor::process_request_randomness: num_words and callback_gas_limit
\* are written to the request, minimum_confirmations is not read
process_request_randomness(w, accounts, seed, callback_data, num_words, minimum_confirmations, callback_gas_limit) ==
    IF Len(accounts) < 4 THEN ProgramErr(w, "NotEnoughAccountKeys")
    ELSE IF ~accounts[1].is_signer THEN ProgramErr(w, "MissingRequiredSignature")
    ELSE IF ~HasSubscription(w, accounts[3].key)
    THEN ProgramErr(w, "ProgramFailedToComplete")
    ELSE IF coordinator = "kamui-program"
    THEN request_randomness_kamui_program(w, accounts, seed, callback_data,
                                          num_words, callback_gas_limit)
    ELSE request_randomness_kamui_example_program(w, accounts, seed, callback_data,
                                                  num_words, callback_gas_limit)

\* Processor::process: the instruction data is deserialized from its first
\* byte on, which is the variant of VrfCoordinatorInstruction, and must be
\* used up; RequestRandomness is the third variant
Processor_process_request(w, accounts, data) ==
    IF data.prefix # "" THEN ProgramErr(w, "InvalidInstructionData")
    ELSE IF data.variant # 2 THEN ProgramErr(w, "InvalidInstructionData")
    ELSE process_request_randomness(w, accounts, data.seed, data.callback_data,
                                    data.num_words, data.minimum_confirmations,
                                    data.callback_gas_limit)

process_register_oracle(w, accounts, oracle_key, vrf_key) ==
    IF Len(accounts) < 3 THEN ProgramErr(w, "NotEnoughAccountKeys")
    ELSE IF ~accounts[1].is_signer THEN ProgramErr(w, "MissingRequiredSignature")
    ELSE IF ~accounts[2].is_signer THEN ProgramErr(w, "MissingRequiredSignature")
    ELSE IF owner_of(w, accounts[2].key) # system_program_id
    THEN ProgramErr(w, "AccountAlreadyInUse")
    ELSE ProgramOk([w EXCEPT !.oracle_config =
                       [exists |-> TRUE, oracle_key |-> oracle_key,
                        vrf_key |-> vrf_key, is_active |-> TRUE]])

process_deactivate_oracle(w, accounts, oracle_key) ==
    IF Len(accounts) < 2 THEN ProgramErr(w, "NotEnoughAccountKeys")
    ELSE IF ~accounts[1].is_signer THEN ProgramErr(w, "MissingRequiredSignature")
    ELSE IF ~(accounts[2].key = oracle_config_account /\ w.oracle_config.exists)
    THEN ProgramErr(w, "BorshIoError")
    ELSE IF w.oracle_config.oracle_key # oracle_key
    THEN ProgramErr(w, "InvalidOracle")
    ELSE ProgramOk([w EXCEPT !.oracle_config.is_active = FALSE])

(***************************************************************************)
(* The games                                                               *)
(***************************************************************************)
\* the bytes of a u64, and the values of a u8
U64_BYTES == 4
U8_VALUES == 256

\* a number that is the random value as u8, with no modulus
number_as_u8(random_value) == random_value % U8_VALUES

\* state.current_number = ((random_value % 100) + 1) as u8
number_of_random_value(random_value) == ((random_value % 100) + 1) % U8_VALUES

\* u64::from_le_bytes of the first bytes of the first randomness value
random_value_of(randomness) == LE(SubSeq(randomness[1], 1, U64_BYTES))

\* result_data[0]: the first byte of the data of the account handed in as
\* VRF result, which is the first byte of its discriminator
first_data_byte(w, key) ==
    IF HasVrfResult(w, key) THEN 86
    ELSE IF HasRequest(w, key) THEN 82
    ELSE IF HasSubscription(w, key) THEN 83
    ELSE -1

process_initialize(w, accounts) ==
    LET with_payer == game \in {"kamui-program", "example-vrf-game"}
        owner == accounts[1]
    IN  IF Len(accounts) < (IF with_payer THEN 5 ELSE 4)
        THEN ProgramErr(w, "NotEnoughAccountKeys")
        ELSE IF ~owner.is_signer THEN ProgramErr(w, "MissingRequiredSignature")
        ELSE IF with_payer /\ ~accounts[4].is_signer
        THEN ProgramErr(w, "MissingRequiredSignature")
        ELSE IF find_program_address(<<"game_state">> \o owner.key, game_program_id)
                # accounts[2].key
        THEN ProgramErr(w, "InvalidSeeds")
        ELSE IF accounts[2].key # game_state_pda
        THEN ProgramErr(w, "ProgramFailedToComplete")
        ELSE IF owner_of(w, accounts[2].key) # system_program_id
        THEN ProgramErr(w, "AccountAlreadyInUse")
        ELSE ProgramOk([w EXCEPT !.game_state =
                           [exists |-> TRUE, owner |-> owner.key,
                            subscription |-> accounts[3].key,
                            current_number |-> 0, is_pending |-> FALSE]])

\* the instruction data the game sends to the coordinator: kamui-program
\* puts eight bytes in front of it, and example-vrf-game serializes an enum
\* of its own, in which RequestRandomness is the first variant
request_ix_data(seed) ==
    [prefix |-> IF game = "kamui-program" THEN "VRFREQST" ELSE "",
     variant |-> IF game = "example-vrf-game" THEN 0 ELSE 2,
     seed |-> seed, callback_data |-> "ConsumeRandomness", num_words |-> 1,
     minimum_confirmations |-> 1, callback_gas_limit |-> 200000]

process_request_number(w, accounts, seed) ==
    IF Len(accounts) < 6 THEN ProgramErr(w, "NotEnoughAccountKeys")
    ELSE
    LET owner == accounts[1]
        game_state_ == accounts[2]
        request_account == accounts[3]
        subscription_ == accounts[4]
        vrf_program == accounts[5]
        derives == game \in {"kamui-program", "kamui-example-program"}
        next_nonce == checked_add(w.subscription.nonce, 1)
        request_pda == find_program_address(
            <<"request">> \o subscription_.key \o to_le_bytes(next_nonce),
            vrf_program.key)
        cpi == Processor_process_request(w,
                   <<Meta(owner.key, TRUE),
                     Meta(IF derives THEN request_pda ELSE request_account.key, FALSE),
                     Meta(subscription_.key, FALSE),
                     Meta(system_program_id, FALSE)>>,
                   request_ix_data(seed))
    IN  IF ~owner.is_signer THEN ProgramErr(w, "MissingRequiredSignature")
        ELSE IF owner_of(w, game_state_.key) # game_program_id
        THEN ProgramErr(w, "IllegalOwner")
        ELSE IF find_program_address(<<"game_state">> \o owner.key, game_program_id)
                # game_state_.key
        THEN ProgramErr(w, "InvalidSeeds")
        ELSE IF w.game_state.owner # owner.key
        THEN ProgramErr(w, IF game = "example-vrf-game" THEN "InvalidOwner"
                           ELSE "InvalidAccountData")
        ELSE IF w.game_state.is_pending
        THEN ProgramErr(w, IF game = "example-vrf-game" THEN "AlreadyPending"
                           ELSE "InvalidAccountData")
        ELSE IF derives /\ ~HasSubscription(w, subscription_.key)
        THEN ProgramErr(w, "ProgramFailedToComplete")
        ELSE IF derives /\ next_nonce = -1
        THEN ProgramErr(w, "ProgramFailedToComplete")
        ELSE IF derives /\ request_pda # request_account.key
        THEN ProgramErr(w, "InvalidSeeds")
        ELSE IF vrf_program.key # vrf_program_id
        THEN ProgramErr(w, "IncorrectProgramId")
        ELSE IF cpi.res # "Ok" THEN ProgramErr(w, cpi.res)
        ELSE ProgramOk([cpi.w EXCEPT !.game_state.is_pending = TRUE])

\* the coordinator's address as the game spells it out
vrf_coordinator_id ==
    IF game = "kamui-program" THEN <<"29wLw7e3">> ELSE <<"Bfwfooyk">>

\* kamui-program and example-vrf-game: owners and address of the result are
\* tested, and the number is taken from the first randomness value
consume_randomness_checked(w, accounts) ==
    LET vrf_result_account == accounts[1]
        request_account == accounts[2]
        game_state_ == accounts[3]
        evg == game = "example-vrf-game"
    IN  IF owner_of(w, game_state_.key) # game_program_id
        THEN ProgramErr(w, "IllegalOwner")
        ELSE IF find_program_address(<<"game_state">> \o w.game_state.owner,
                                     game_program_id) # game_state_.key
        THEN ProgramErr(w, "InvalidSeeds")
        ELSE IF owner_of(w, vrf_result_account.key) # vrf_coordinator_id
        THEN ProgramErr(w, IF evg THEN "InvalidVrfCoordinator" ELSE "IllegalOwner")
        ELSE IF owner_of(w, request_account.key) # vrf_coordinator_id
        THEN ProgramErr(w, IF evg THEN "InvalidVrfCoordinator" ELSE "IllegalOwner")
        ELSE IF find_program_address(<<"vrf_result">> \o request_account.key,
                                     vrf_coordinator_id) # vrf_result_account.key
        THEN ProgramErr(w, IF evg THEN "InvalidVrfResult" ELSE "InvalidSeeds")
        ELSE IF ~HasVrfResult(w, vrf_result_account.key)
        THEN ProgramErr(w, IF evg THEN "InvalidAccountData" ELSE "BorshIoError")
        ELSE IF Len(w.vrf_results[vrf_result_account.key].randomness) = 0
        THEN ProgramErr(w, "InvalidAccountData")
        ELSE ProgramOk([w EXCEPT
                !.game_state.current_number = number_of_random_value(
                    random_value_of(w.vrf_results[vrf_result_account.key].randomness)),
                !.game_state.is_pending = FALSE])

\* kamui-example-program: the game must be pending, and the number is
\* taken from the first byte of the account's data
consume_randomness_first_byte(w, accounts) ==
    LET vrf_result_account == accounts[1]
        game_state_ == accounts[3]
    IN  IF ~(game_state_.key = game_state_pda /\ w.game_state.exists)
        THEN ProgramErr(w, "BorshIoError")
        ELSE IF ~w.game_state.is_pending THEN ProgramErr(w, "InvalidAccountData")
        ELSE IF first_data_byte(w, vrf_result_account.key) = -1
        THEN ProgramErr(w, "ProgramFailedToComplete")
        ELSE ProgramOk([w EXCEPT
                !.game_state.current_number =
                    number_of_random_value(first_data_byte(w, vrf_result_account.key)),
                !.game_state.is_pending = FALSE])

\* process_consume_randomness of the game; a VRFConsumer that only logs the
\* randomness accepts every callback
process_consume_randomness(w, accounts) ==
    IF game = "consumer" THEN ProgramOk(w)
    ELSE IF Len(accounts) < 3 THEN ProgramErr(w, "NotEnoughAccountKeys")
    ELSE IF game = "kamui-example-program"
    THEN consume_randomness_first_byte(w, accounts)
    ELSE consume_randomness_checked(w, accounts)

(***************************************************************************)
(* The coordinator: FulfillRandomness and its callback                     *)
(***************************************************************************)
\* the VrfResult that process_fulfill_randomness writes
NewVrfResult(proof_bytes, public_key_bytes) ==
    [exists |-> TRUE, randomness |-> <<randomness_of(proof_bytes, public_key_bytes)>>,
     proof |-> proof_bytes]

\* the instruction the coordinator sends to the game program: the callback
\* data of the request, with the result, the request and the game state
callback(w, game_program, callback_data, accounts) ==
    IF game_program.key # game_program_id THEN ProgramErr(w, "IncorrectProgramId")
    ELSE IF callback_data # "ConsumeRandomness"
    THEN ProgramErr(w, "InvalidInstructionData")
    ELSE process_consume_randomness(w, accounts)

\* the accounts of the callback
callback_accounts(accounts) ==
    <<Meta(accounts[3].key, FALSE), Meta(accounts[2].key, FALSE),
      Meta(accounts[8].key, FALSE)>>

\* kamui-program: the address of the result is derived from the requester,
\* and only when the account has no data yet
fulfill_randomness_kamui_program(w, accounts, proof_bytes, public_key_bytes) ==
    LET request_account == accounts[2]
        vrf_result_account == accounts[3]
        subscription_ == accounts[5]
        game_program == accounts[7]
        game_state_ == accounts[8]
    IN  IF ~HasRequest(w, request_account.key)
        THEN ProgramErr(w, "ProgramFailedToComplete")
        ELSE
        LET request == w.requests[request_account.key]
            requester == request.requester
            written == [w EXCEPT
                !.vrf_results[vrf_result_account.key] =
                    NewVrfResult(proof_bytes, public_key_bytes),
                !.requests[request_account.key].status = "Fulfilled",
                !.subscription.balance = checked_add(@, w.subscription.min_balance)]
            cpi == callback(written, game_program, request.callback_data,
                            callback_accounts(accounts))
        IN  IF vrf_result_account.key \notin DOMAIN w.vrf_results
            THEN ProgramErr(w, "InvalidAccountData")
            ELSE IF /\ ~HasVrfResult(w, vrf_result_account.key)
                    /\ find_program_address(<<"vrf_result">> \o requester,
                                            vrf_program_id) # vrf_result_account.key
            THEN ProgramErr(w, "InvalidSeeds")
            ELSE IF ~HasSubscription(w, subscription_.key)
            THEN ProgramErr(w, "ProgramFailedToComplete")
            ELSE IF checked_add(w.subscription.balance, w.subscription.min_balance) = -1
            THEN ProgramErr(w, "InvalidInstructionData")
            ELSE IF find_program_address(<<"game_state">> \o requester,
                                         game_program.key) # game_state_.key
            THEN ProgramErr(w, "InvalidSeeds")
            ELSE IF cpi.res # "Ok" THEN ProgramErr(w, cpi.res)
            ELSE ProgramOk(cpi.w)

\* kamui-example-program: the address of the result is derived from the
\* request account, and the account is created each time
fulfill_randomness_kamui_example_program(w, accounts, proof_bytes, public_key_bytes) ==
    LET request_account == accounts[2]
        vrf_result_account == accounts[3]
        subscription_ == accounts[5]
        game_program == accounts[7]
    IN  IF find_program_address(<<"vrf_result">> \o request_account.key,
                                vrf_program_id) # vrf_result_account.key
        THEN ProgramErr(w, "InvalidSeeds")
        ELSE IF ~HasRequest(w, request_account.key)
        THEN ProgramErr(w, "ProgramFailedToComplete")
        ELSE IF ~HasSubscription(w, subscription_.key)
        THEN ProgramErr(w, "ProgramFailedToComplete")
        ELSE IF vrf_result_account.key \notin DOMAIN w.vrf_results
        THEN ProgramErr(w, "InvalidAccountData")
        ELSE IF owner_of(w, vrf_result_account.key) # system_program_id
        THEN ProgramErr(w, "AccountAlreadyInUse")
        ELSE IF checked_add(w.subscription.balance, w.subscription.min_balance) = -1
        THEN ProgramErr(w, "InvalidInstructionData")
        ELSE
        LET written == [w EXCEPT
                !.vrf_results[vrf_result_account.key] =
                    NewVrfResult(proof_bytes, public_key_bytes),
                !.requests[request_account.key].status = "Fulfilled",
                !.subscription.balance = checked_add(@, w.subscription.min_balance)]
            cpi == callback(written, game_program,
                            w.requests[request_account.key].callback_data,
                            callback_accounts(accounts))
        IN  IF cpi.res # "Ok" THEN ProgramErr(w, cpi.res) ELSE ProgramOk(cpi.w)

\* Processor::process_fulfill_randomness
process_fulfill_randomness(w, accounts, proof_bytes, public_key_bytes) ==
    IF Len(accounts) < 8 THEN ProgramErr(w, "NotEnoughAccountKeys")
    ELSE IF ~accounts[1].is_signer THEN ProgramErr(w, "InvalidOracleSigner")
    ELSE IF coordinator = "kamui-program"
    THEN fulfill_randomness_kamui_program(w, accounts, proof_bytes, public_key_bytes)
    ELSE fulfill_randomness_kamui_example_program(w, accounts, proof_bytes,
                                                  public_key_bytes)

(***************************************************************************)
(* The coordinator: CancelRequest                                          *)
(***************************************************************************)
\* the data of a request account as process_request_randomness leaves it:
\* the discriminator "REQUEST\0", then the serialized request
request_account_data(w, key) ==
    IF HasRequest(w, key) THEN <<"REQUEST", "RandomnessRequest">> ELSE << >>

\* RandomnessRequest::try_from_slice: the slice is a serialized request from
\* its first byte to its last.  Read from the discriminator on, every field
\* is shifted by eight bytes, and the length of callback_data is read out of
\* the requester's key: the bytes that follow are not as many as it says
RandomnessRequest_try_from_slice(data) == data = <<"RandomnessRequest">>

\* Processor::process_cancel_request, the same in both coordinators: the
\* request is deserialized from the first byte of the account's data; an
\* account left without lamports is gone when the transaction ends
process_cancel_request(w, accounts) ==
    IF Len(accounts) < 4 THEN ProgramErr(w, "NotEnoughAccountKeys")
    ELSE IF ~accounts[1].is_signer THEN ProgramErr(w, "MissingRequiredSignature")
    ELSE IF ~RandomnessRequest_try_from_slice(request_account_data(w, accounts[2].key))
    THEN ProgramErr(w, "BorshIoError")
    ELSE IF ~HasSubscription(w, accounts[3].key)
    THEN ProgramErr(w, "ProgramFailedToComplete")
    ELSE IF w.requests[accounts[2].key].status # "Pending"
    THEN ProgramErr(w, "InvalidRequestStatus")
    ELSE IF w.subscription.owner # accounts[1].key
    THEN ProgramErr(w, "InvalidSubscriptionOwner")
    ELSE IF checked_add(w.subscription.balance, w.subscription.min_balance) = -1
    THEN ProgramErr(w, "InvalidInstructionData")
    ELSE ProgramOk([w EXCEPT
            !.subscription.balance = checked_add(@, w.subscription.min_balance),
            !.requests[accounts[2].key] = NoRequest])

(***************************************************************************)
(* The instructions that are sent (SpecFlow)                               *)
(***************************************************************************)
\* the oracle is the one of the oracle config, and active
Registered(oracle) ==
    /\ oracle_config.exists
    /\ oracle_config.is_active
    /\ oracle_config.oracle_key = oracle.key

\* the request account holds a request that is pending
Pending(request_account) ==
    IF HasRequest(World, request_account)
    THEN requests[request_account].status = "Pending" ELSE FALSE

\* the transaction is processed: the accounts are as the instruction left
\* them, and the client sees the result
Processed(ix, r, signed, registered, verifies, pending, address, in_bounds, held) ==
    /\ subscription' = r.w.subscription
    /\ tokens' = r.w.tokens
    /\ requests' = r.w.requests
    /\ vrf_results' = r.w.vrf_results
    /\ game_state' = r.w.game_state
    /\ oracle_config' = r.w.oracle_config
    /\ last' = [ix |-> ix, res |-> r.res, signed |-> signed,
                registered |-> registered, verifies |-> verifies,
                pending |-> pending,
                funded |-> subscription.balance >= subscription.min_balance,
                address |-> address, changed |-> r.w # World,
                in_bounds |-> in_bounds, held |-> held]
    /\ UNCHANGED <<coordinator, game, vrf_program_id, offchain>>
    /\ UNCHANGED library
    /\ UNCHANGED <<cli, retry>>

\* the instruction is the n-th of test_full_vrf_flow, sent after the ones
\* before it and nothing else
Script(n, as_in_test) == script' = IF script = n - 1 /\ as_in_test THEN n ELSE -1

SendCreateSubscription(min_balance, owner_signs) ==
    /\ Processed("CreateSubscription",
           process_create_subscription(World,
               <<Meta(subscription_owner, owner_signs),
                 Meta(subscription_account, TRUE),
                 Meta(system_program_id, FALSE)>>, min_balance, 1),
           owner_signs, FALSE, FALSE, FALSE, "", FALSE, FALSE)
    /\ Script(1, owner_signs /\ min_balance = MaxMinBalance)

SendFundSubscription(amount) ==
    /\ Processed("FundSubscription",
           process_fund_subscription(World,
               <<Meta(subscription_owner, TRUE), Meta(subscription_account, FALSE),
                 Meta(<<"funder_token">>, FALSE),
                 Meta(<<"subscription_token">>, FALSE),
                 Meta(<<"spl_token">>, FALSE)>>, amount),
           TRUE, FALSE, FALSE, FALSE, "", FALSE, FALSE)
    /\ Script(2, amount = MaxAmount)

\* the accounts of Initialize: the test of kamui-program hands over four,
\* the devnet test adds the payer
SendInitialize(with_payer) ==
    /\ game # "consumer"
    /\ Processed("Initialize",
           process_initialize(World,
               IF with_payer
               THEN <<Meta(game_owner, TRUE), Meta(game_state_pda, FALSE),
                      Meta(subscription_account, FALSE), Meta(payer, TRUE),
                      Meta(system_program_id, FALSE)>>
               ELSE <<Meta(game_owner, TRUE), Meta(game_state_pda, FALSE),
                      Meta(subscription_account, FALSE),
                      Meta(system_program_id, FALSE)>>),
           TRUE, FALSE, FALSE, FALSE, "", FALSE, FALSE)
    /\ Script(3, ~with_payer)

\* the request account a client derives: from the nonce after the next
\* request, or from the nonce as it is
client_request_account(from_next_nonce) ==
    request_key(IF from_next_nonce THEN subscription.nonce + 1
                ELSE subscription.nonce, vrf_program_id)

SendRequestNewNumber(from_next_nonce) ==
    /\ game # "consumer"
    /\ Processed("RequestNewNumber",
           process_request_number(World,
               <<Meta(game_owner, TRUE), Meta(game_state_pda, FALSE),
                 Meta(client_request_account(from_next_nonce), FALSE),
                 Meta(subscription_account, FALSE),
                 Meta(vrf_program_id, FALSE),
                 Meta(system_program_id, FALSE)>>, request_seed),
           TRUE, FALSE, FALSE, FALSE,
           IF from_next_nonce THEN "next_nonce" ELSE "nonce", TRUE, FALSE)
    /\ Script(4, from_next_nonce)

\* RequestRandomness sent to the coordinator by the requester itself
SendRequestRandomness(from_next_nonce, requester_signs, params) ==
    /\ Processed("RequestRandomness",
           Processor_process_request(World,
               <<Meta(game_owner, requester_signs),
                 Meta(client_request_account(from_next_nonce), FALSE),
                 Meta(subscription_account, FALSE),
                 Meta(system_program_id, FALSE)>>,
               [prefix |-> "", variant |-> 2, seed |-> request_seed,
                callback_data |-> "ConsumeRandomness",
                num_words |-> params.num_words,
                minimum_confirmations |-> params.minimum_confirmations,
                callback_gas_limit |-> params.callback_gas_limit]),
           requester_signs, FALSE, FALSE, FALSE,
           IF from_next_nonce THEN "next_nonce" ELSE "nonce",
           within_validation_bounds(params.num_words, params.minimum_confirmations,
                                    params.callback_gas_limit), FALSE)
    /\ Script(0, FALSE)

\* the result account a client derives: from the request account, or from
\* the requester
client_vrf_result(request_account, by_request) ==
    vrf_result_key(IF by_request THEN request_account ELSE game_owner,
                   vrf_program_id)

\* FulfillRandomness: the oracle, the request, the result account, the proof
SendFulfillRandomness(oracle, request_account, by_request, proof_bytes) ==
    /\ Processed("FulfillRandomness",
           process_fulfill_randomness(World,
               <<oracle, Meta(request_account, FALSE),
                 Meta(client_vrf_result(request_account, by_request), FALSE),
                 Meta(game_program_id, FALSE),
                 Meta(subscription_account, FALSE),
                 Meta(system_program_id, FALSE),
                 Meta(game_program_id, FALSE),
                 Meta(game_state_pda, FALSE)>>, proof_bytes, offchain.public_key),
           oracle.is_signer, Registered(oracle), proof_bytes \in offchain.verifying,
           Pending(request_account),
           IF by_request THEN "request" ELSE "requester", FALSE, FALSE)
    /\ Script(5, /\ oracle = Meta(payer, TRUE)
                 /\ by_request
                 /\ request_account = request_key(1, vrf_program_id)
                 /\ proof_bytes \in offchain.verifying)

\* ConsumeRandomness sent to the game by a client
SendConsumeRandomness(request_account, by_request) ==
    /\ game # "consumer"
    /\ Processed("ConsumeRandomness",
           process_consume_randomness(World,
               <<Meta(client_vrf_result(request_account, by_request), FALSE),
                 Meta(request_account, FALSE),
                 Meta(game_state_pda, FALSE)>>),
           FALSE, FALSE, FALSE, Pending(request_account),
           IF by_request THEN "request" ELSE "requester", FALSE, FALSE)
    /\ Script(6, by_request /\ request_account = request_key(1, vrf_program_id))

\* ConsumeRandomness sent to the game by a client that hands over, as the
\* VRF result, an account of its choice
SendConsumeRandomnessOf(vrf_result_account, request_account) ==
    /\ game # "consumer"
    /\ Processed("ConsumeRandomness",
           process_consume_randomness(World,
               <<Meta(vrf_result_account, FALSE), Meta(request_account, FALSE),
                 Meta(game_state_pda, FALSE)>>),
           FALSE, FALSE, FALSE, Pending(request_account), "account", FALSE, FALSE)
    /\ Script(0, FALSE)

SendRegisterOracle(oracle_key) ==
    /\ Processed("RegisterOracle",
           process_register_oracle(World,
               <<Meta(<<"admin">>, TRUE), Meta(oracle_config_account, TRUE),
                 Meta(system_program_id, FALSE)>>, oracle_key, offchain.public_key),
           TRUE, FALSE, FALSE, FALSE, "", FALSE, FALSE)
    /\ Script(0, FALSE)

SendDeactivateOracle(oracle_key) ==
    /\ Processed("DeactivateOracle",
           process_deactivate_oracle(World,
               <<Meta(<<"admin">>, TRUE), Meta(oracle_config_account, FALSE)>>,
               oracle_key),
           TRUE, FALSE, FALSE, FALSE, "", FALSE, FALSE)
    /\ Script(0, FALSE)

\* CancelRequest: the one who cancels, the request, the subscription and
\* its token account; address tells whether the one who cancels owns the
\* subscription
SendCancelRequest(owner, request_account) ==
    /\ Processed("CancelRequest",
           process_cancel_request(World,
               <<owner, Meta(request_account, FALSE),
                 Meta(subscription_account, FALSE),
                 Meta(<<"subscription_token">>, FALSE)>>),
           owner.is_signer, FALSE, FALSE, Pending(request_account),
           IF subscription.exists /\ subscription.owner = owner.key
           THEN "owner" ELSE "other", FALSE, HasRequest(World, request_account))
    /\ Script(0, FALSE)

Oracles == {Meta(payer, TRUE), Meta(payer, FALSE), Meta(<<"stranger">>, TRUE)}

\* who sends CancelRequest
Cancellers ==
    {Meta(subscription_owner, TRUE), Meta(subscription_owner, FALSE),
     Meta(<<"stranger">>, TRUE)}

\* the parameters of a request that is sent: as the games send them, with
\* too many words, with a gas limit below and above the limits, and with no
\* confirmations
GameParams ==
    [num_words |-> 1, minimum_confirmations |-> 1, callback_gas_limit |-> 200000]
RequestParams ==
    {GameParams,
     [num_words |-> MAXIMUM_RANDOM_WORDS + 1, minimum_confirmations |-> 1,
      callback_gas_limit |-> 200000],
     [num_words |-> 1, minimum_confirmations |-> 1,
      callback_gas_limit |-> MINIMUM_CALLBACK_GAS_LIMIT - 1],
     [num_words |-> 1, minimum_confirmations |-> 1,
      callback_gas_limit |-> MAXIMUM_CALLBACK_GAS_LIMIT + 1],
     [num_words |-> 1, minimum_confirmations |-> MINIMUM_REQUEST_CONFIRMATIONS - 1,
      callback_gas_limit |-> 200000]}

NextFlow ==
    \/ \E min_balance \in 0 .. MaxMinBalance, owner_signs \in BOOLEAN :
           SendCreateSubscription(min_balance, owner_signs)
    \/ \E amount \in 1 .. MaxAmount : SendFundSubscription(amount)
    \/ \E with_payer \in BOOLEAN : SendInitialize(with_payer)
    \/ \E from_next_nonce \in BOOLEAN :
           /\ subscription.nonce < MaxNonce
           /\ SendRequestNewNumber(from_next_nonce)
    \/ \E from_next_nonce \in BOOLEAN, requester_signs \in BOOLEAN :
           /\ subscription.nonce < MaxNonce
           /\ SendRequestRandomness(from_next_nonce, requester_signs, GameParams)
    \/ \E oracle \in Oracles, request_account \in RequestKeys(vrf_program_id),
          by_request \in BOOLEAN, proof_bytes \in offchain.proofs :
           SendFulfillRandomness(oracle, request_account, by_request, proof_bytes)
    \/ \E request_account \in RequestKeys(vrf_program_id), by_request \in BOOLEAN :
           SendConsumeRandomness(request_account, by_request)
    \/ \E oracle_key \in {payer, <<"stranger">>} : SendRegisterOracle(oracle_key)
    \/ \E oracle_key \in {payer, <<"stranger">>} : SendDeactivateOracle(oracle_key)

InitFlow ==
    /\ SessionInit
    /\ \E d \in Deployments : FlowInit(d[1], d[2], d[3])

SpecFlow == InitFlow /\ [][NextFlow]_vars

(***************************************************************************)
(* Several requests on one subscription, and their cancellation            *)
(* (SpecRequests): the oracle is registered and signs, its proofs verify,  *)
(* and a request is sent as long as the account a client derives for it is *)
(* one of the request accounts                                             *)
(***************************************************************************)
NextRequests ==
    \/ \E min_balance \in 0 .. MaxMinBalance :
           SendCreateSubscription(min_balance, TRUE)
    \/ \E amount \in 1 .. MaxAmount : SendFundSubscription(amount)
    \/ \E with_payer \in BOOLEAN : SendInitialize(with_payer)
    \/ \E from_next_nonce \in BOOLEAN :
           /\ client_request_account(from_next_nonce) \in DOMAIN requests
           /\ SendRequestNewNumber(from_next_nonce)
    \/ \E from_next_nonce \in BOOLEAN :
           /\ client_request_account(from_next_nonce) \in DOMAIN requests
           /\ SendRequestRandomness(from_next_nonce, TRUE, GameParams)
    \/ \E request_account \in DOMAIN requests, by_request \in BOOLEAN,
          proof_bytes \in offchain.verifying :
           SendFulfillRandomness(Meta(payer, TRUE), request_account, by_request,
                                 proof_bytes)
    \/ \E request_account \in DOMAIN requests, by_request \in BOOLEAN :
           SendConsumeRandomness(request_account, by_request)
    \/ SendRegisterOracle(payer)
    \/ SendDeactivateOracle(payer)
    \/ \E owner \in Cancellers, request_account \in DOMAIN requests :
           SendCancelRequest(owner, request_account)

InitRequests ==
    /\ SessionInit
    /\ \E d \in Deployments : FlowInitUpTo(d[1], d[2], d[3], MaxRequests)

SpecRequests == InitRequests /\ [][NextRequests]_vars

(***************************************************************************)
(* The requests of a game (SpecGame): every request is made by the game,   *)
(* and ConsumeRandomness is sent by the coordinator and by clients         *)
(***************************************************************************)
NextGame ==
    \/ \E min_balance \in 0 .. MaxMinBalance :
           SendCreateSubscription(min_balance, TRUE)
    \/ \E amount \in 1 .. MaxAmount : SendFundSubscription(amount)
    \/ \E with_payer \in BOOLEAN : SendInitialize(with_payer)
    \/ \E from_next_nonce \in BOOLEAN :
           /\ client_request_account(from_next_nonce) \in DOMAIN requests
           /\ SendRequestNewNumber(from_next_nonce)
    \/ \E request_account \in DOMAIN requests, by_request \in BOOLEAN,
          proof_bytes \in offchain.verifying :
           SendFulfillRandomness(Meta(payer, TRUE), request_account, by_request,
                                 proof_bytes)
    \/ \E request_account \in DOMAIN requests, by_request \in BOOLEAN :
           SendConsumeRandomness(request_account, by_request)
    \/ \E request_account \in DOMAIN requests :
           \E vrf_result_account \in {request_account, subscription_account} :
               SendConsumeRandomnessOf(vrf_result_account, request_account)
    \/ SendRegisterOracle(payer)

SpecGame == InitRequests /\ [][NextGame]_vars

(***************************************************************************)
(* The parameters of RequestRandomness (SpecParams): requests with         *)
(* parameters within and outside the constants for request validation, on  *)
(* a subscription that is created and funded                               *)
(***************************************************************************)
NextParams ==
    \/ \E min_balance \in 0 .. MaxMinBalance :
           SendCreateSubscription(min_balance, TRUE)
    \/ \E amount \in 1 .. MaxAmount : SendFundSubscription(amount)
    \/ \E from_next_nonce \in BOOLEAN, requester_signs \in BOOLEAN,
          params \in RequestParams :
           /\ client_request_account(from_next_nonce) \in DOMAIN requests
           /\ SendRequestRandomness(from_next_nonce, requester_signs, params)

SpecParams == InitRequests /\ [][NextParams]_vars

(***************************************************************************)
(* The retry loop of ecvrf_encode_to_curve_solana, one iteration at a time  *)
(* (SpecEncode)                                                            *)
(***************************************************************************)
\* point_bytes[0] = point_bytes[0].wrapping_add(1), on the last byte instead
next_candidate_last_byte(point_bytes) ==
    [point_bytes EXCEPT ![PLEN] = (@ + 1) % BYTE]

\* point_bytes[0] = point_bytes[0].wrapping_add(1)
next_candidate(point_bytes) == [point_bytes EXCEPT ![1] = (@ + 1) % BYTE]

\* multiply_ristretto(&PodScalar([1; 32]), &point).is_some()
is_some_point(point_bytes) ==
    multiply_ristretto([i \in 1 .. PLEN |-> 1], point_bytes) # NoBytes

\* point_bytes.copy_from_slice(&uniform_bytes[..32]);
\* point_bytes[31] &= 0b0111_1111; let mut attempts = 0
EncodeStart(uniform_bytes) ==
    /\ retry.pc = "idle"
    /\ retry' = [NoRetry EXCEPT
                    !.pc = "while",
                    !.uniform_bytes = uniform_bytes,
                    !.point_bytes = [SubSeq(uniform_bytes, 1, PLEN) EXCEPT
                                        ![PLEN] = @ % (BYTE \div 2)]]
    /\ UNCHANGED <<library, cli, flow>>

\* one iteration of while attempts < 256
EncodeTest ==
    /\ retry.pc = "while"
    /\ retry.attempts < BYTE
    /\ IF is_some_point(retry.point_bytes)
       THEN retry' = [retry EXCEPT !.pc = "returned",
                                   !.tested = Append(@, retry.point_bytes),
                                   !.returned = retry.point_bytes]
       ELSE retry' = [retry EXCEPT !.tested = Append(@, retry.point_bytes),
                                   !.point_bytes = next_candidate(@),
                                   !.attempts = @ + 1]
    /\ UNCHANGED <<library, cli, flow>>

\* after the loop: PodRistrettoPoint(BASEPOINT_BYTES)
EncodeFallback ==
    /\ retry.pc = "while"
    /\ retry.attempts >= BYTE
    /\ retry' = [retry EXCEPT !.pc = "returned", !.returned = BASEPOINT_BYTES]
    /\ UNCHANGED <<library, cli, flow>>

\* the 64 uniform bytes: every first half, and a second half of zeros
UniformInputs == {first \o Zeros(PLEN) : first \in ByteStrings(PLEN)}

NextEncode ==
    \/ \E uniform_bytes \in UniformInputs : EncodeStart(uniform_bytes)
    \/ EncodeTest
    \/ EncodeFallback

\* the loop runs in one call, which goes on until it returns
SpecEncode ==
    Init /\ [][NextEncode]_vars /\ WF_vars(EncodeTest) /\ WF_vars(EncodeFallback)

(***************************************************************************)
(* Properties of a session (Spec) and of concurrent proving (SpecProve).   *)
(***************************************************************************)
\* the session has passed the verifier's decoding of key and proof
Decoded == pc \in {"received", "verified", "verified_output", "hashed", "recoded"}

\* a public key verify is meant to refuse: the identity, or no point at all
IdentityKey(bytes) == bytes = Zeros(PLEN)
NonCanonicalKey(bytes) == decompress(bytes) = NoPoint
ValidKey(bytes) == ~IdentityKey(bytes) /\ ~NonCanonicalKey(bytes)

\* a proof whose gamma is no point, or whose s is not below the group order
InvalidGamma(p) == decompress(p.gamma) = NoPoint
NonCanonicalS(p) == from_canonical_bytes(p.s) = NoScalar

\* C1: for every key pair from generate or from a private key, and every
\* alpha, verify(pk, alpha, prove(sk, alpha)) returns Ok, for every value of
\* the challenge c, c = 0 included.
C1_VerifyOfProveIsOk == own # NoResult => own.res = "Ok"

C4_OutputIsHashOfProof ==
    (pc = "proved" /\ out # NoBytes)
    => (out = to_hash(proof) /\ proof = prove(kp, alpha))

C4_OutputCalled == pc = "proved" /\ out # NoBytes /\ valid(kp.pk) /\ alpha # << >>

\* C5 as amended: verify with the all-zero public key returns InvalidInput at
\* the public-key check, before anything of the proof is looked at; with a
\* non-zero encoding of no point it returns the same InvalidInput, but only
\* from the first multiscalar multiplication, for every alpha and every proof.
C5_InvalidKeyIsInvalidInput ==
    (pc = "verified" /\ ~ValidKey(vpk))
    => /\ result.res = "InvalidInput"
       /\ IdentityKey(vpk) => result.at = "pk_valid"
       /\ ~IdentityKey(vpk) => result.at = "u_point"

C5_NonCanonicalKeyVerified ==
    /\ pc = "verified"
    /\ ~IdentityKey(vpk)
    /\ NonCanonicalKey(vpk)
    /\ NonCanonicalS(decoded.proof)

\* C5 as stated: verify with the identity or a non-canonical public key
\* returns InvalidPublicKey, decided at the public-key check, before any
\* check that depends on the proof.
C5_InvalidKeyIsInvalidPublicKey ==
    (pc = "verified" /\ ~ValidKey(vpk))
    => (result.res = "InvalidPublicKey" /\ result.at = "pk_valid")

\* C6 as amended: verify with a valid public key returns InvalidInput when
\* the proof's gamma is no point or its s is not canonical, from one of the
\* two multiscalar multiplications; InvalidInput is also what an invalid
\* public key gets.
C6_InvalidProofIsInvalidInput ==
    (pc = "verified" /\ ValidKey(vpk)
     /\ (InvalidGamma(decoded.proof) \/ NonCanonicalS(decoded.proof)))
    => /\ result.res = "InvalidInput"
       /\ result.res = verify(decoded.proof, valpha, Zeros(PLEN))
       /\ result.at \in {"u_point", "v_point"}
       /\ NonCanonicalS(decoded.proof) => result.at = "u_point"

C6_InvalidGammaVerified ==
    /\ pc = "verified"
    /\ ValidKey(vpk)
    /\ InvalidGamma(decoded.proof)
    /\ result.at = "v_point"

\* C6 as stated: verify with a valid public key returns InvalidProof when
\* gamma is no point or s is not canonical, a kind other than the one an
\* invalid public key gets.
C6_InvalidProofIsItsOwnKind ==
    (pc = "verified" /\ ValidKey(vpk)
     /\ (InvalidGamma(decoded.proof) \/ NonCanonicalS(decoded.proof)))
    => /\ result.res = "InvalidProof"
       /\ result.res # verify(decoded.proof, valpha, Zeros(PLEN))

\* C7 as amended: verify_output first runs verify and returns its error; when
\* the proof verifies but to_hash(proof) is not the expected output it
\* returns GeneralOpaqueError, the kind a differing challenge gets as well;
\* otherwise Ok.
C7_OutputMismatchIsOpaque ==
    pc = "verified_output"
    => LET v == verify(decoded.proof, valpha, vpk)
       IN  /\ v # "Ok" => /\ result.res = v
                          /\ result.at = verify_return(decoded.proof, valpha, vpk)
           /\ (v = "Ok" /\ to_hash(decoded.proof) # vout)
              => /\ result.res = "GeneralOpaqueError"
                 /\ result.res = verify_error("c_prime")
                 /\ result.at = "output"
           /\ (v = "Ok" /\ to_hash(decoded.proof) = vout) => result.res = "Ok"

C7_OutputMismatched ==
    /\ pc = "verified_output"
    /\ result.at = "output"
    /\ "output" \in tampered

\* C7 as stated: when the proof verifies but to_hash(proof) is not the
\* expected output, verify_output returns OutputMismatch, a kind other than
\* the one a differing challenge gets.
C7_OutputMismatchIsItsOwnKind ==
    (pc = "verified_output"
     /\ verify(decoded.proof, valpha, vpk) = "Ok"
     /\ to_hash(decoded.proof) # vout)
    => /\ result.res = "OutputMismatch"
       /\ result.res # verify_error("c_prime")

\* C8: to_hash depends on gamma only: the proof the verifier holds and the
\* prover's proof hash alike when their gamma is the same, whatever c and s.
C8_ToHashOfGammaOnly ==
    (pc = "hashed" /\ decoded.proof.gamma = proof.gamma) => vhash = out

C8_SameGammaOtherProof ==
    /\ pc = "hashed"
    /\ decoded.proof.gamma = proof.gamma
    /\ decoded.proof.c # proof.c
    /\ vhash = to_hash(decoded.proof)

C10_WrongLengthIsErr ==
    (pc \in {"refused", "crashed"} \/ Decoded)
    => (Len(wire) # PROOF_LEN => decoded.tag = "Err")

\* the proof a decoder of gamma, c, s reads out of the bytes gamma, s, c
MisreadProof(p) ==
    [gamma |-> p.gamma,
     c |-> SubSeq(p.s \o p.c, 1, C_LEN),
     s |-> SubSeq(p.s \o p.c, C_LEN + 1, C_LEN + PLEN)]

C12_NothingAborts == pc \notin {"aborted", "crashed"}

\* C13: in prove the nonce k is derived from the private key and the encoded
\* point H = encode_to_curve(pk, alpha), so that for a fixed key two inputs
\* of the same H get the same nonce.
C13_NonceFromH ==
    \A i \in Callers :
        loc[i].k # NoBytes
        => /\ loc[i].k = ecvrf_nonce_generation(kp.sk, loc[i].h_point)
           /\ \A j \in Callers :
                  (loc[j].k # NoBytes /\ loc[j].h_point = loc[i].h_point)
                  => loc[j].k = loc[i].k

\* C14: the library's encode_to_curve computes its uniform bytes as
\* expand_message_xmd(pk || alpha) and maps all of them to the point, so that
\* H depends on the second half of the uniform bytes as well as on the first.
C14_EncodeToCurveIsXmdAndMap ==
    pc = "proved"
    => LET uniform_bytes == uniform_bytes_of(kp.pk, alpha)
       IN  /\ uniform_bytes = expand_message_xmd(kp.pk \o alpha)
           /\ \E half \in ByteStrings(PLEN) :
                  point_of_uniform(SubSeq(uniform_bytes, 1, PLEN) \o half)
                      # point_of_uniform(uniform_bytes)

C16_OnChainAgrees ==
    (pc = "onchain" /\ tampered = {})
    => /\ onchain_encode_to_curve_solana(valpha)
              = ecvrf_encode_to_curve_solana(pkwire, valpha)
       /\ verify(proof, alpha, kp.pk) = "Ok" => result.res = "Ok"

\* C17: for every canonical scalar x, negate_scalar(x) is the canonical
\* representative of -x mod l: it is below l, x + negate_scalar(x) = 0 mod l,
\* and negate_scalar(0) = 0.  Here x is the challenge verify negates.
C17_NegateIsCanonical ==
    pc = "verified"
    => LET x == ChallengeScalarBytes(decoded.proof.c)
           n == negate_scalar(x)
       IN  /\ from_canonical_bytes(x) # NoScalar
           /\ from_canonical_bytes(n) # NoScalar
           /\ (LE(x) + LE(n)) % ELL = 0
           /\ LE(x) = 0 => LE(n) = 0

\* C18: every ECVRFKeyPair obtained from generate, From<ECVRFPrivateKey> or
\* ECVRFKeyPair::from_bytes satisfies pk = sk * B.
C18_PublicKeyOfSecretKey ==
    kp # NoKey => kp.pk = compress((from_bytes_mod_order(kp.sk) * 1) % ELL)

\* C19 as amended: the validity predicate of a public key returns true if and
\* only if the 32 bytes are not all zero; verify gives up at the public-key
\* check for the all-zero key alone, and a non-zero string that is no point
\* passes as valid.
C19_ValidIsNotAllZero ==
    pc = "verified"
    => /\ valid(vpk) <=> ~IdentityKey(vpk)
       /\ result.at = "pk_valid" <=> IdentityKey(vpk)

C19_UndecodableKeyIsValid ==
    /\ pc = "verified"
    /\ NonCanonicalKey(vpk)
    /\ valid(vpk)
    /\ result.at # "pk_valid"

\* C19 as stated: the validity predicate returns true if and only if the
\* bytes are a canonical encoding of a point other than the identity.
C19_ValidIsCanonicalNonIdentity ==
    pc = "verified"
    => /\ valid(vpk) <=> ValidKey(vpk)
       /\ result.at = "pk_valid" <=> ~ValidKey(vpk)

\* C20: the randomness FulfillRandomness stores in the VRF result account and
\* emits is derived from the output (to_hash) of the proof submitted, so a
\* fulfilment with a proof of another gamma stores other randomness.
C20_RandomnessFromProof ==
    (pc = "fulfilled" /\ Len(wire) = PROOF_LEN)
    => /\ vrf_result.randomness = to_hash(onchain_from_bytes(wire).proof)
       /\ "gamma" \in tampered
          => vrf_result.randomness # randomness_of(to_bytes(proof), kp.pk)

\* a hex argument that does not decode, and one that decodes to n bytes
Malformed(s) == hex_decode(s).tag = "Err"
DecodesTo(s, n) == hex_decode(s).tag = "Ok" /\ Len(hex_decode(s).value) = n

\* the arguments of verify decode to a key, a proof and an output of the
\* right lengths, and verify_output refuses them
VerificationFails(args) ==
    /\ DecodesTo(args.public_key, PLEN) /\ ~Malformed(args.input)
    /\ DecodesTo(args.proof, PROOF_LEN) /\ DecodesTo(args.output, HLEN)
    /\ verify_output(ECVRFProof_from_bytes(hex_decode(args.proof).value).proof,
                     hex_decode(args.input).value,
                     hex_decode(args.public_key).value,
                     hex_decode(args.output).value) # "Ok"

\* C21: prove and verify of the command line end with an error value, never
\* with the success message and never with an abort, whenever a hex argument
\* is malformed or decodes to the wrong length (secret key and public key
\* PLEN, proof PROOF_LEN, output HLEN bytes) or the verification fails.
C21_BadArgumentsAreErr ==
    /\ cli_pc \in {"proved", "prove_failed"}
       => ((\/ Malformed(arguments.secret_key) \/ Malformed(arguments.input)
            \/ ~DecodesTo(arguments.secret_key, PLEN))
           => cli_result.res = "Err")
    /\ cli_pc = "verified"
       => ((\/ Malformed(arguments.public_key) \/ Malformed(arguments.input)
            \/ Malformed(arguments.proof) \/ Malformed(arguments.output)
            \/ ~DecodesTo(arguments.public_key, PLEN)
            \/ ~DecodesTo(arguments.proof, PROOF_LEN)
            \/ ~DecodesTo(arguments.output, HLEN)
            \/ VerificationFails(arguments))
           => cli_result.res = "Err")


(***************************************************************************)
(* Properties of the coordinator and the games (SpecFlow)                  *)
(***************************************************************************)
\* the deployment of test_full_vrf_flow
TestDeployment ==
    /\ coordinator = "kamui-program"
    /\ game = "kamui-program"
    /\ vrf_program_id = <<"new_unique">>

\* C22: in kamui-program the six instructions of test_full_vrf_flow, sent in
\* order with the accounts and addresses of the test, all succeed, and
\* is_pending is false after Initialize, true after RequestNewNumber and
\* false after ConsumeRandomness.
C22_FullFlowSucceeds ==
    (TestDeployment /\ script \in 1 .. 6)
    => /\ last.res = "Ok"
       /\ script = 3 => ~game_state.is_pending
       /\ script = 4 => game_state.is_pending
       /\ script = 6 => ~game_state.is_pending

\* a game has consumed randomness: by ConsumeRandomness, or by the callback
\* of a FulfillRandomness
Consumed ==
    /\ last.res = "Ok"
    /\ \/ last.ix = "ConsumeRandomness"
       \/ last.ix = "FulfillRandomness" /\ game # "consumer"

\* C23: current_number is at most 100 in every state of the game; after a
\* successful ConsumeRandomness is_pending is false and current_number is
\* between 1 and 100, whatever the randomness of the VRF result is.
C23_NumberInRange ==
    /\ game_state.current_number <= 100
    /\ Consumed => /\ ~game_state.is_pending
                   /\ game_state.current_number \in 1 .. 100
    /\ \A r \in ByteStrings(U64_BYTES) :
           number_of_random_value(random_value_of(<<r \o Zeros(HLEN - U64_BYTES)>>))
               \in 1 .. 100
    /\ \A b \in 0 .. (U8_VALUES - 1) : number_of_random_value(b) \in 1 .. 100

C23_Witness ==
    /\ last.ix = "ConsumeRandomness"
    /\ last.res = "Ok"
    /\ game_state.current_number \in 1 .. 100
    /\ ~game_state.is_pending

\* the candidates the loop has tested so far differ from the first only in
\* byte 0, and no two of them are equal
CandidatesDistinctInByte0 ==
    /\ \A i \in 1 .. Len(retry.tested) : \A j \in 2 .. PLEN :
           retry.tested[i][j] = retry.tested[1][j]
    /\ \A i, j \in 1 .. Len(retry.tested) :
           i # j => retry.tested[i] # retry.tested[j]

\* what the loop returned is the first candidate that is a point, or the
\* basepoint after it has tested all of them
ReturnedFirstValid ==
    retry.pc = "returned"
    => /\ retry.returned = point_of_uniform(retry.uniform_bytes)
       /\ IF \E i \in 1 .. Len(retry.tested) : is_some_point(retry.tested[i])
          THEN /\ retry.returned = retry.tested[Len(retry.tested)]
               /\ \A i \in 1 .. (Len(retry.tested) - 1) :
                      ~is_some_point(retry.tested[i])
          ELSE /\ Len(retry.tested) = BYTE
               /\ retry.returned = BASEPOINT_BYTES

C25_DerivedRequestAddressAccepted ==
    ( /\ coordinator = "kamui-program"
      /\ last.ix \in {"RequestNewNumber", "RequestRandomness"}
      /\ last.address = "next_nonce"
      /\ last.signed
      /\ last.funded )
    => last.res # "InvalidSeeds"

\* C26: in kamui-program the VRF result account that FulfillRandomness
\* accepts for a request is the address derived from "vrf_result" and the
\* request account, which is the one ConsumeRandomness requires: handed that
\* address for a pending request, FulfillRandomness does not refuse it with
\* InvalidSeeds, and a result it writes is accepted by the consumer.
C26_ResultAddressAgreed ==
    ( /\ coordinator = "kamui-program"
      /\ last.ix = "FulfillRandomness"
      /\ last.signed
      /\ last.pending
      /\ last.address = "request" )
    => last.res # "InvalidSeeds"

\* C27: FulfillRandomness succeeds, sets the request to Fulfilled and writes
\* the VRF result, only if the proof verifies under the public key for the
\* seed of the request; otherwise it fails and changes nothing.
C27_FulfilledOnlyIfProofVerifies ==
    (last.ix = "FulfillRandomness" /\ ~last.verifies)
    => (last.res # "Ok" /\ ~last.changed)

\* C28: FulfillRandomness on a request that is not Pending fails and changes
\* neither the request, the VRF result nor the balance of the subscription.
C28_FulfilledAtMostOnce ==
    (last.ix = "FulfillRandomness" /\ ~last.pending)
    => (last.res # "Ok" /\ ~last.changed)

\* C29: FulfillRandomness succeeds only when its oracle account signed and
\* is the oracle of an OracleConfig that is active; an oracle account that
\* did not sign is refused with InvalidOracleSigner.
C29_OnlyRegisteredOracle ==
    last.ix = "FulfillRandomness"
    => /\ last.res = "Ok" => (last.signed /\ last.registered)
       /\ ~last.signed => last.res = "InvalidOracleSigner"

\* C30 as stated: RequestRandomness on a subscription whose balance is below
\* min_balance fails with InsufficientBalance and changes no account.
C30_UnfundedIsInsufficientBalance ==
    (last.ix = "RequestRandomness" /\ ~last.funded)
    => (last.res = "InsufficientBalance" /\ ~last.changed)

\* C30: RequestRandomness on a subscription whose balance is below
\* min_balance fails and changes no account; the error is
\* InsufficientBalance when the requester signed and, in kamui-program, the
\* request account is the address derived from the nonce (the tests that
\* come before the balance, which fail with MissingRequiredSignature and
\* InvalidSeeds).
C30_UnfundedIsRefused ==
    (last.ix = "RequestRandomness" /\ ~last.funded)
    => /\ last.res # "Ok"
       /\ ~last.changed
       /\ ( /\ last.signed
            /\ coordinator = "kamui-program" => last.address = "nonce" )
          => last.res = "InsufficientBalance"
       /\ ~last.signed => last.res = "MissingRequiredSignature"
       /\ ( /\ last.signed
            /\ coordinator = "kamui-program"
            /\ last.address # "nonce" )
          => last.res = "InvalidSeeds"

C30_Witness ==
    /\ last.ix = "RequestRandomness"
    /\ ~last.funded
    /\ last.res = "InsufficientBalance"
    /\ ~last.changed
    /\ subscription.min_balance > 0

(***************************************************************************)
(* Properties of requests, their parameters and their cancellation         *)
(* (SpecRequests, SpecParams)                                              *)
(***************************************************************************)
\* the instruction that was processed is a RequestRandomness that succeeded,
\* sent by a client or by the game
Requested(l) == l.ix \in {"RequestRandomness", "RequestNewNumber"} /\ l.res = "Ok"

\* the request accounts that hold a request
Existing(r) == {k \in DOMAIN r : r[k].exists}

\* C31: the nonce of a subscription is 0 when it is created, a RequestRandomness
\* that succeeds adds exactly 1 to it and creates one request at an address
\* that held none, no other instruction changes it, and two requests of the
\* subscription never carry the same nonce.
C31_NonceCountsRequests ==
    [][ /\ (~subscription.exists /\ subscription'.exists) => subscription'.nonce = 0
        /\ (subscription.exists /\ Requested(last'))
           => /\ subscription'.nonce = subscription.nonce + 1
              /\ \E k \in DOMAIN requests :
                     /\ ~requests[k].exists
                     /\ requests'[k].exists
                     /\ \A other \in DOMAIN requests \ {k} :
                            requests'[other] = requests[other]
        /\ (subscription.exists /\ subscription'.nonce # subscription.nonce)
           => Requested(last')
        /\ \A k1 \in Existing(requests'), k2 \in Existing(requests') :
               k1 # k2 => requests'[k1].nonce # requests'[k2].nonce ]_vars

\* two requests were made on the subscription
C31_Witness ==
    /\ subscription.nonce = 2
    /\ Cardinality(Existing(requests)) = 2
    /\ Requested(last)

\* C32: a RequestRandomness whose num_words, callback_gas_limit or
\* minimum_confirmations is outside the constants for request validation
\* fails and creates no request.
C32_OutOfBoundsIsRejected ==
    (last.ix = "RequestRandomness" /\ ~last.in_bounds)
    => (last.res # "Ok" /\ ~last.changed)

\* the CancelRequest that was processed was signed by the owner of the
\* subscription and named a request that was Pending
OwnerCancelledPending(l) ==
    l.ix = "CancelRequest" /\ l.signed /\ l.pending /\ l.address = "owner"

\* C33: a CancelRequest that the owner of the subscription signs for a
\* Pending request that RequestRandomness created succeeds and empties the
\* request account, which holds no request from then on, so that the request
\* can be neither fulfilled nor cancelled again.
C33_OwnerCancelsPendingRequest ==
    [][ OwnerCancelledPending(last')
        => /\ last'.res = "Ok"
           /\ \E k \in Existing(requests) :
                  /\ requests[k].status = "Pending"
                  /\ ~requests'[k].exists ]_vars

\* C34: a CancelRequest fails and changes neither the request account nor
\* the subscription when the first account did not sign
\* (MissingRequiredSignature), when the request is not Pending
\* (InvalidRequestStatus), and when the one who signed is not the owner of
\* the subscription (InvalidSubscriptionOwner).
C34_RefusedCancelNamesItsCause ==
    last.ix = "CancelRequest"
    => /\ ~last.signed => (last.res = "MissingRequiredSignature" /\ ~last.changed)
       /\ (last.signed /\ last.held /\ ~last.pending)
          => (last.res = "InvalidRequestStatus" /\ ~last.changed)
       /\ (last.signed /\ last.pending /\ last.address = "other")
          => (last.res = "InvalidSubscriptionOwner" /\ ~last.changed)

\* C35: the balance of a subscription never exceeds the sum of the amounts
\* of its FundSubscription instructions that succeeded, which is what its
\* token account received: RequestRandomness, FulfillRandomness and
\* CancelRequest do not raise the balance above what was funded.
C35_BalanceWithinFunded ==
    subscription.exists => subscription.balance <= tokens.subscription

(***************************************************************************)
(* Properties of the games (SpecGame, SpecFlow)                            *)
(***************************************************************************)
\* the requests that are Pending
Outstanding(r) == {k \in Existing(r) : r[k].status = "Pending"}

\* the error of RequestNewNumber for a game that is pending
already_pending ==
    IF game = "example-vrf-game" THEN "AlreadyPending" ELSE "InvalidAccountData"

\* C36: RequestNewNumber on a game state with is_pending = true fails
\* (AlreadyPending in example-vrf-game, InvalidAccountData in the other
\* games), leaves the game state as it is and sends no request to the
\* coordinator; so at most one request of the game is Pending at any time.
C36_OneOutstandingRequest ==
    [][ /\ (last'.ix = "RequestNewNumber" /\ game_state.is_pending)
           => /\ last'.res = already_pending
              /\ game_state' = game_state
              /\ requests' = requests
              /\ subscription' = subscription
        /\ Cardinality(Outstanding(requests')) <= 1 ]_vars

\* C37: the number of the game changes only for a request that is
\* outstanding: a ConsumeRandomness that reaches a game state with
\* is_pending = false fails and leaves the game state as it is, whether a
\* client sends it or the coordinator calls back.
C37_NumberChangesOnlyWhenPending ==
    [][ (game_state.exists /\ ~game_state.is_pending)
        => /\ last'.ix = "ConsumeRandomness"
              => (last'.res # "Ok" /\ game_state' = game_state)
           /\ game_state'.current_number = game_state.current_number ]_vars

(***************************************************************************)
(* The control flow of negate_scalar (Spec)                                *)
(***************************************************************************)
\* C38: negate_scalar takes the same sequence of branches for every scalar:
\* whatever challenge verify negates, the branches taken in the loop are
\* those taken for the scalar 0.
C38_NegateBranchesAreFixed ==
    pc = "verified"
    => negate_scalar_branches(ChallengeScalarBytes(decoded.proof.c))
           = negate_scalar_branches(Zeros(PLEN))

=============================================================================
